---------------------------- MODULE Spec2Model ----------------------------
(***************************************************************************)
(* Verification model of the NotebookLM automation repository.             *)
(*                                                                         *)
(* The module holds several state machines that share one variable list:   *)
(*                                                                         *)
(*   SpecJobs  the MCP server's asynchronous infographic job queue         *)
(*             (server.ts: generate_infographic, check_infographic_status, *)
(*             getClient, /sync-cookies, cleanupOldJobs);                  *)
(*   Spec      the notebook orchestrator of the two clients                *)
(*             (notebooklm_client.ts, native_fetch_client.ts:              *)
(*             prepareNotebook, listSources, generateInfographic, query,   *)
(*             generateSummary, _executeRpc) with its cache file;          *)
(*   SpecPoll  pollForArtifacts of the two clients;                        *)
(*   SpecTok   _refreshTokens of the two clients.                          *)
(*                                                                         *)
(* Every action is one run-to-completion step of the JavaScript event      *)
(* loop: the code from one await to the next.  What an awaited external    *)
(* call (the NotebookLM backend, the browser, the network) answers is      *)
(* drawn with \E from the outcomes that call can have.                     *)
(***************************************************************************)
EXTENDS Integers, Sequences, FiniteSets, TLC

(***************************************************************************)
(* Bounds of the model.                                                    *)
(***************************************************************************)
MaxJobs == 1          \* job objects alive at a time
MaxTicks == 1         \* times the clock advances

(***************************************************************************)
(* Program constants.                                                      *)
(***************************************************************************)
DEDUP_MAX_AGE == 300000       \* generate_infographic: reuse only if < 5 min old
TEN_MINUTES == 600000         \* cleanupOldJobs
MAX_AGE == 3600000            \* getCookiesForUser: cookies are fresh for 60 min

VARIABLES
    \* ---- server.ts ----
    job,              \* the InfographicJob objects and their worker's position
    infographicJobs,  \* the ids the Map infographicJobs holds
    needsReauth,      \* Map needsReauth: user key -> "undefined" | "true" | "false"
    userCookies,      \* cookies synced per user key (legacy mode under "__legacy__")
    userClients,      \* Map userClients: user key -> client instance
    now,              \* Date.now(), in ms since the server started
    nTicks,           \* times the clock has advanced
    observed,         \* what the step just taken answered, if it read a job
    headlessEnv,      \* process.env.NOTEBOOKLM_HEADLESS
    \* ---- notebooklm_client.ts, native_fetch_client.ts ----
    call,             \* the operations in flight on the clients and their locals
    cacheFile,        \* cache.json: url -> { notebookId, sourceId }
    sessionAt,        \* per client: sessionTokens.at is set
    page,             \* the notebook the Playwright client's page shows
    lastOk,           \* the prepareNotebook call that succeeded last
    poll,             \* one pollForArtifacts call: loop position and counts
    tok,              \* one client's _refreshTokens call and its sessionTokens
    parser,           \* one call of a response parser: its text and its result
    fetch,            \* one fetchWithCookies call of the native client
    session,          \* server.ts: the activeNotebooks list and who set it
    proxy             \* notebook_controller.js: isProxyReady and the callProxy calls

varsJobs == <<job, infographicJobs, needsReauth, userCookies, userClients,
              now, nTicks, observed, headlessEnv>>

varsOrch == <<call, cacheFile, sessionAt, page, lastOk>>

varsPoll == <<poll>>

varsTok == <<tok>>

varsParser == <<parser>>

varsFetch == <<fetch>>

varsSession == <<session>>

varsProxy == <<proxy>>

vars == <<varsJobs, varsOrch, varsPoll, varsTok, varsParser, varsFetch,
          varsSession, varsProxy>>

\* What the actions of one part leave alone; the server never writes the
\* environment it was started with.
notJobs == <<headlessEnv, varsOrch, varsPoll, varsTok, varsParser, varsFetch,
             varsSession, varsProxy>>
notOrch == <<varsJobs, varsPoll, varsTok, varsParser, varsFetch, varsSession,
             varsProxy>>
notPoll == <<varsJobs, varsOrch, varsTok, varsParser, varsFetch, varsSession,
             varsProxy>>
notTok == <<varsJobs, varsOrch, varsPoll, varsParser, varsFetch, varsSession,
            varsProxy>>
notParser == <<varsJobs, varsOrch, varsPoll, varsTok, varsFetch, varsSession,
               varsProxy>>
notFetch == <<varsJobs, varsOrch, varsPoll, varsTok, varsParser, varsSession,
              varsProxy>>
notProxy == <<varsJobs, varsOrch, varsPoll, varsTok, varsParser, varsFetch,
              varsSession>>
notSession == <<varsJobs, varsOrch, varsPoll, varsTok, varsParser, varsFetch,
                varsProxy>>

-----------------------------------------------------------------------------
(***************************************************************************)
(* server.ts: the job queue.                                               *)
(***************************************************************************)
Tokens == {"", "u1"}      \* the user_token argument; "" is a request without one
VideoUrls == {"v1", "v2"}
JobIds == 1..MaxJobs
\* The cookie arrays the extension may post, by name; "" is no cookies.
CookieSets == {"c1"}
\* The time spans the clock may advance by: 6, 11 and 60 minutes.
TickSteps == {360000, 660000, 3600000}

UserKey(userToken) == IF userToken = "" THEN "__legacy__" ELSE userToken
Keys == {UserKey(t) : t \in Tokens}

AuthRequired == "Authentication required"
OtherError == "other error"
ClientErrors == {AuthRequired, OtherError}
SessionExpired == "Session expired"
RetryFailed == "Re-auth succeeded but retry failed"

\* A client instance: its class, the cookies it was constructed with, and
\* the user key those cookies were synced under (owner).
NoClient == [kind |-> "none", cookies |-> "", owner |-> ""]
\* An answer to a request: the job's status, whether it has image data, how
\* the job was found, the token of the request (asker) and the token of the
\* request the job was created for (jobUser).
NoObservation ==
    [status |-> "", imageData |-> FALSE, via |-> "", asker |-> "",
     jobUser |-> ""]
NoCookies == [cookies |-> "", receivedAt |-> 0]

\* A job object that generateJobId has not been called for yet.  Beside the
\* fields of InfographicJob and the worker's locals a job counts the calls of
\* generateInfographic its worker has made (attempts) and notes whether
\* /sync-cookies was processed for its user key since its authentication
\* error (synced).
Unborn ==
    [status |-> "unborn", videoUrl |-> "", user |-> "", createdAt |-> 0,
     imageUrl |-> FALSE, imageData |-> FALSE, error |-> "", pc |-> "unborn",
     retry |-> FALSE, cl |-> NoClient, serial |-> 0, attempts |-> 0,
     synced |-> FALSE]

\* const job = { id, videoUrl, status: 'pending', createdAt: Date.now() }
\* generateJobId never repeats an id: serial tells the job objects that take
\* the same slot of the model apart.
NewJob(video_url, userToken, serial) ==
    [status |-> "pending", videoUrl |-> video_url, user |-> userToken,
     createdAt |-> now, imageUrl |-> FALSE, imageData |-> FALSE, error |-> "",
     pc |-> "created", retry |-> FALSE, cl |-> NoClient, serial |-> serial,
     attempts |-> 0, synced |-> FALSE]

\* The values of the environment variable that getClient tells apart.
HeadlessEnvs == {"undefined", "true", "false"}

\* getClient: headless = headlessEnv === undefined ? true
\*                                                  : headlessEnv === "true"
Headless == IF headlessEnv = "undefined" THEN TRUE ELSE headlessEnv = "true"

\* The server after its start in one of the given environments.
InitServer(envs, ids) ==
    /\ headlessEnv \in envs
    /\ job = [j \in ids |-> Unborn]
    /\ infographicJobs = {}
    /\ needsReauth = [k \in Keys |-> "undefined"]
    /\ userCookies = [k \in Keys |-> NoCookies]
    /\ userClients = [k \in Keys |-> NoClient]
    /\ now = 0
    /\ nTicks = 0
    /\ observed = NoObservation

InitJobsIn(envs) == InitServer(envs, JobIds)

InitJobs == InitJobsIn({"undefined"})

\* getCookiesForUser: the user's own cookies, else the legacy cookies.
GetCookiesForUser(userToken) ==
    LET own == userCookies[UserKey(userToken)]
        legacy == userCookies["__legacy__"]
        pick == IF userToken # "" /\ own.cookies # "" THEN own
                ELSE IF legacy.cookies # "" THEN legacy
                ELSE NoCookies
    IN [cookies |-> pick.cookies,
        fresh |-> pick.cookies # "" /\ now - pick.receivedAt < MAX_AGE,
        owner |-> IF userToken # "" /\ own.cookies # "" THEN userToken
                  ELSE IF legacy.cookies # "" THEN "__legacy__"
                  ELSE ""]

\* cleanupOldJobs: the ids left in the Map.
CleanupOldJobs(ids) ==
    {id \in ids : ~(now - job[id].createdAt > TEN_MINUTES)}

\* The dedup loop of generate_infographic: the in-flight jobs it may reuse.
Reusable(ids, video_url, userToken) ==
    {id \in ids :
        /\ job[id].videoUrl = video_url
        /\ job[id].status \in {"pending", "processing"}
        /\ now - job[id].createdAt < DEDUP_MAX_AGE}

\* getClient up to its first await, for the worker of job jb: the job's next
\* position and client.  With fresh cookies an existing native client is
\* returned as it is, else a NativeFetchClient is built from the cookies read
\* here and started; without them the Playwright client is reused or built.
GetClientEnter(jb, clients) ==
    LET c == GetCookiesForUser(jb.user)
        existing == clients[UserKey(jb.user)]
    IN  IF c.fresh /\ c.cookies # ""
        THEN IF existing.kind # "native"
             THEN [jb EXCEPT !.cl = [kind |-> "native", cookies |-> c.cookies,
                                     owner |-> c.owner],
                             !.pc = IF existing.kind = "playwright"
                                    THEN "gc_stop" ELSE "gc_start"]
             ELSE [jb EXCEPT !.cl = existing, !.pc = "ensure"]
        ELSE IF existing.kind # "playwright"
             THEN [jb EXCEPT !.cl = [kind |-> "playwright", cookies |-> "",
                                     owner |-> ""],
                             !.pc = "gc_start"]
             ELSE [jb EXCEPT !.cl = existing, !.pc = "ensure"]

\* job.status = 'completed' at the end of the try block; the worker returns
\* and its locals (client, retry path) are gone.
MarkCompleted(jb) ==
    [jb EXCEPT !.status = "completed", !.pc = "done", !.cl = NoClient,
               !.retry = FALSE, !.attempts = 0, !.synced = FALSE]

\* job.status = 'failed'; job.error = ...; the worker returns.
MarkFailed(jb, e) ==
    [jb EXCEPT !.status = "failed", !.error = e, !.pc = "done", !.cl = NoClient,
               !.retry = FALSE, !.attempts = 0, !.synced = FALSE]

\* A catch block that puts the job back to 'pending' while it waits for the
\* re-auth.
WorkerCatchRequeue(j, e) ==
    LET key == UserKey(job[j].user)
    IN  IF job[j].retry
        THEN /\ job' = [job EXCEPT ![j] = MarkFailed(job[j], RetryFailed)]
             /\ UNCHANGED needsReauth
        ELSE IF e = AuthRequired
        THEN /\ needsReauth' = [needsReauth EXCEPT ![key] = "true"]
             /\ job' = [job EXCEPT ![j].pc = "reauthWait", ![j].status = "pending",
                                   ![j].synced = FALSE]
        ELSE /\ job' = [job EXCEPT ![j] = MarkFailed(job[j], e)]
             /\ UNCHANGED needsReauth

\* The worker's catch block for an error e thrown by getClient,
\* ensureBrowserReady or generateInfographic.
WorkerCatch(j, e) ==
    LET key == UserKey(job[j].user)
    IN  IF job[j].retry
        THEN /\ job' = [job EXCEPT ![j] = MarkFailed(job[j], RetryFailed)]
             /\ UNCHANGED needsReauth
        ELSE IF e = AuthRequired
        THEN \* pushReauthEvent(reauthKey), then the wait loop's first sleep
             /\ needsReauth' = [needsReauth EXCEPT ![key] = "true"]
             /\ job' = [job EXCEPT ![j].pc = "reauthWait", ![j].synced = FALSE]
        ELSE /\ job' = [job EXCEPT ![j] = MarkFailed(job[j], e)]
             /\ UNCHANGED needsReauth

\* The job objects that no longer exist: never created, or dropped from the
\* Map with their worker returned.  A new job takes the first such slot.
FreeSlots(ids) ==
    {id \in DOMAIN job : id \notin ids /\ job[id].pc \in {"unborn", "done"}}

\* Tool generate_infographic: cleanupOldJobs, the dedup loop, the new job and
\* its worker up to the worker's first await (the job is 'pending' and then
\* 'processing' within this one step), and the wait loop, which reads the
\* job's status once (POLL_INTERVAL exceeds MAX_WAIT).
GenerateInfographicTool(video_url, userToken) ==
    /\ LET kept == CleanupOldJobs(infographicJobs)
           reuse == Reusable(kept, video_url, userToken)
       IN  /\ IF reuse # {}
              THEN \E id \in reuse :
                      /\ \A other \in reuse : id <= other   \* Map iteration order
                      /\ infographicJobs' = kept
                      /\ observed' = [status |-> job[id].status,
                                      imageData |-> job[id].imageData,
                                      via |-> "reused", asker |-> userToken,
                                      jobUser |-> job[id].user]
                      /\ UNCHANGED job
              ELSE \E id \in FreeSlots(kept) :
                      /\ \A other \in FreeSlots(kept) : id <= other
                      /\ LET started == [NewJob(video_url, userToken, job[id].serial + 1)
                                            EXCEPT !.status = "processing"]
                             entered == GetClientEnter(started, userClients)
                         IN  /\ job' = [job EXCEPT ![id] = entered]
                             /\ observed' = [status |-> entered.status,
                                             imageData |-> entered.imageData,
                                             via |-> "new", asker |-> userToken,
                                             jobUser |-> userToken]
                      /\ infographicJobs' = kept \cup {id}
           /\ UNCHANGED <<needsReauth, userCookies, userClients, now, nTicks>>
    /\ UNCHANGED notJobs

\* getClient: await existing.client.stop() of the old Playwright client returns
\* (its error is swallowed); the native client is constructed and started.
GetClientStopped(j) ==
    /\ job[j].pc = "gc_stop"
    /\ job' = [job EXCEPT ![j].pc = "gc_start"]
    /\ UNCHANGED <<infographicJobs, needsReauth, userCookies, userClients,
                   now, nTicks>>
    /\ observed' = NoObservation
    /\ UNCHANGED notJobs

\* getClient: await client.start() returns or throws, or, in a Playwright
\* client that is not headless and was sent to the login page, comes to
\* page.waitForURL(site, { timeout: 0 }).
GetClientStarted(j) ==
    /\ job[j].pc = "gc_start"
    /\ \/ /\ userClients' = [userClients EXCEPT ![UserKey(job[j].user)] = job[j].cl]
          /\ job' = [job EXCEPT ![j].pc = "ensure"]
          /\ UNCHANGED needsReauth
       \/ \E e \in ClientErrors :
            /\ WorkerCatch(j, e)
            /\ UNCHANGED userClients
       \/ /\ job[j].cl.kind = "playwright" /\ ~Headless
          /\ job' = [job EXCEPT ![j].pc = "gc_login"]
          /\ UNCHANGED <<needsReauth, userClients>>
    /\ UNCHANGED <<infographicJobs, userCookies, now, nTicks>>
    /\ observed' = NoObservation
    /\ UNCHANGED notJobs

\* getClient: the user has logged in, the page has reached the site and
\* page.waitForURL returns; client.start() reads the tokens and returns, or
\* throws when it finds none.
LoginWaitReturned(j) ==
    /\ job[j].pc = "gc_login"
    /\ \/ /\ userClients' = [userClients EXCEPT ![UserKey(job[j].user)] = job[j].cl]
          /\ job' = [job EXCEPT ![j].pc = "ensure"]
          /\ UNCHANGED needsReauth
       \/ /\ WorkerCatch(j, OtherError)
          /\ UNCHANGED userClients
    /\ UNCHANGED <<infographicJobs, userCookies, now, nTicks>>
    /\ observed' = NoObservation
    /\ UNCHANGED notJobs

\* await client.ensureBrowserReady() returns or throws.
EnsureReturned(j) ==
    /\ job[j].pc = "ensure"
    /\ \/ /\ job' = [job EXCEPT ![j].pc = "generate", ![j].attempts = @ + 1]
          /\ UNCHANGED needsReauth
       \/ \E e \in ClientErrors : WorkerCatch(j, e)
    /\ UNCHANGED <<infographicJobs, userCookies, userClients, now, nTicks>>
    /\ observed' = NoObservation
    /\ UNCHANGED notJobs

\* await client.generateInfographic(video_url) returns the image URL or throws.
GenerateReturned(j) ==
    /\ job[j].pc = "generate"
    /\ \/ /\ job' = [job EXCEPT ![j].imageUrl = TRUE, ![j].pc = "download"]
          /\ UNCHANGED needsReauth
       \/ \E e \in ClientErrors : WorkerCatch(j, e)
    /\ UNCHANGED <<infographicJobs, userCookies, userClients, now, nTicks>>
    /\ observed' = NoObservation
    /\ UNCHANGED notJobs

\* await client.downloadResource(imageUrl) returns the bytes, or throws into
\* the inner catch, which only logs; the job is then marked completed.
DownloadReturned(j) ==
    /\ job[j].pc = "download"
    /\ \/ job' = [job EXCEPT ![j].pc = "sharp"]
       \/ job' = [job EXCEPT ![j] = MarkCompleted(job[j])]
    /\ UNCHANGED <<infographicJobs, needsReauth, userCookies, userClients,
                   now, nTicks>>
    /\ observed' = NoObservation
    /\ UNCHANGED notJobs

\* await sharp(...).toBuffer() returns the buffer (job.imageData is set) or
\* throws into the inner catch; the job is then marked completed.
SharpReturned(j) ==
    /\ job[j].pc = "sharp"
    /\ \/ job' = [job EXCEPT ![j] = MarkCompleted([job[j] EXCEPT !.imageData = TRUE])]
       \/ job' = [job EXCEPT ![j] = MarkCompleted(job[j])]
    /\ UNCHANGED <<infographicJobs, needsReauth, userCookies, userClients,
                   now, nTicks>>
    /\ observed' = NoObservation
    /\ UNCHANGED notJobs

\* A re-auth wait loop without REAUTH_TIMEOUT: it sleeps again for as long
\* as the flag is true.
ReauthWakeNoTimeout(j) ==
    /\ LET key == UserKey(job[j].user)
       IN  /\ job[j].pc = "reauthWait"
           /\ IF needsReauth[key] # "true"
              THEN LET cleared == [userClients EXCEPT ![key] = NoClient]
                   IN  /\ userClients' = cleared
                       /\ job' = [job EXCEPT ![j] =
                                     GetClientEnter([job[j] EXCEPT !.retry = TRUE], cleared)]
                       /\ UNCHANGED needsReauth
              ELSE UNCHANGED <<job, needsReauth, userClients>>
           /\ UNCHANGED <<infographicJobs, userCookies, now, nTicks>>
           /\ observed' = NoObservation
    /\ UNCHANGED notJobs

\* The re-auth wait loop wakes from its 3 s sleep: the flag is no longer true
\* (the retry starts: userClients.delete, getClient), or REAUTH_TIMEOUT has
\* passed (the job fails and the flag is deleted), or the loop sleeps again.
ReauthWake(j) ==
    /\ LET key == UserKey(job[j].user)
       IN  /\ job[j].pc = "reauthWait"
           /\ IF needsReauth[key] # "true"
              THEN LET cleared == [userClients EXCEPT ![key] = NoClient]
                   IN  /\ userClients' = cleared
                       /\ job' = [job EXCEPT ![j] =
                                     GetClientEnter([job[j] EXCEPT !.retry = TRUE], cleared)]
                       /\ UNCHANGED needsReauth
              ELSE /\ needsReauth' = [needsReauth EXCEPT ![key] = "undefined"]
                   /\ job' = [job EXCEPT ![j] = MarkFailed(job[j], SessionExpired)]
                   /\ UNCHANGED userClients
           /\ UNCHANGED <<infographicJobs, userCookies, now, nTicks>>
           /\ observed' = NoObservation
    /\ UNCHANGED notJobs

\* Tool check_infographic_status.
CheckInfographicStatus(job_id) ==
    /\ observed' = IF job_id \in infographicJobs
                   THEN [NoObservation EXCEPT
                            !.status = job[job_id].status,
                            !.imageData = job[job_id].imageData,
                            !.via = "check"]
                   ELSE [NoObservation EXCEPT
                            !.status = "Job not found", !.via = "check"]
    /\ UNCHANGED <<job, infographicJobs, needsReauth, userCookies, userClients,
                   now, nTicks>>
    /\ UNCHANGED notJobs

\* POST /sync-cookies: setCookiesFromExtension, then the re-auth flag.
SyncCookies(cookies, user_token) ==
    /\ LET key == UserKey(user_token)
       IN  /\ userCookies' = [userCookies EXCEPT
                                 ![key] = [cookies |-> cookies, receivedAt |-> now]]
           /\ IF needsReauth[key] = "true"
              THEN /\ needsReauth' = [needsReauth EXCEPT ![key] = "false"]
                   /\ userClients' = [userClients EXCEPT ![key] = NoClient]
              ELSE UNCHANGED <<needsReauth, userClients>>
           /\ job' = [j \in DOMAIN job |->
                         IF job[j].pc = "reauthWait" /\ UserKey(job[j].user) = key
                         THEN [job[j] EXCEPT !.synced = TRUE]
                         ELSE job[j]]
           /\ UNCHANGED <<infographicJobs, now, nTicks>>
           /\ observed' = NoObservation
    /\ UNCHANGED notJobs

\* Time passes.
Tick(d) ==
    /\ nTicks < MaxTicks
    /\ nTicks' = nTicks + 1
    /\ now' = now + d
    /\ UNCHANGED <<job, infographicJobs, needsReauth, userCookies, userClients>>
    /\ observed' = NoObservation
    /\ UNCHANGED notJobs

NextJobs ==
    \/ \E u \in VideoUrls, t \in Tokens : GenerateInfographicTool(u, t)
    \/ \E j \in JobIds : GetClientStopped(j)
    \/ \E j \in JobIds : GetClientStarted(j)
    \/ \E j \in JobIds : LoginWaitReturned(j)
    \/ \E j \in JobIds : EnsureReturned(j)
    \/ \E j \in JobIds : GenerateReturned(j)
    \/ \E j \in JobIds : DownloadReturned(j)
    \/ \E j \in JobIds : SharpReturned(j)
    \/ \E j \in JobIds : ReauthWake(j)
    \/ \E j \in JobIds : CheckInfographicStatus(j)
    \/ \E c \in CookieSets, t \in Tokens : SyncCookies(c, t)
    \/ \E d \in TickSteps : Tick(d)

-----------------------------------------------------------------------------
(* Properties of the job bookkeeping, checked under SpecJobs. *)

\* C1: no status observation (the wait loop of generate_infographic,
\* check_infographic_status) answers status = completed for a job whose
\* imageData is still unset.
C1_CompletedHasImageData ==
    observed.status = "completed" => observed.imageData

\* The status changes a job object may make in one step.
StatusSteps ==
    {<<"pending", "processing">>, <<"processing", "completed">>,
     <<"processing", "failed">>}

\* C2: a job's status only moves pending -> processing -> completed | failed:
\* a job object starts pending or processing, every later change of its status
\* is one of StatusSteps, and completed and failed are never left, on the
\* re-auth retry path and under duplicate-request reuse as well.
C2_StatusMonotonic ==
    [][\A id \in JobIds :
          IF job'[id].serial = job[id].serial
          THEN \/ job'[id].status = job[id].status
               \/ <<job[id].status, job'[id].status>> \in StatusSteps
          ELSE job'[id].status \in {"pending", "processing"}]_vars

\* A job on the retry path after re-auth, still processing, answered to a
\* duplicate request that reused it.
C2_Witness ==
    \E id \in infographicJobs :
        /\ job[id].retry
        /\ job[id].status = "processing"
        /\ observed.via = "reused"
        /\ observed.status = "processing"

\* C13: a request that carries a user token is served under that token only:
\* the native client its job runs on was constructed from cookies synced under
\* that very token (and so holds session tokens refreshed with them), and
\* the job a generate_infographic request is answered from is one that was
\* created for a request with the same token.
C13_ServedUnderOwnToken ==
    /\ \A id \in JobIds :
          job[id].user # "" /\ job[id].cl.kind = "native" =>
              job[id].cl.owner = job[id].user
    /\ observed.via = "reused" /\ observed.asker # "" =>
          observed.jobUser = observed.asker

-----------------------------------------------------------------------------
(***************************************************************************)
(* The clients: prepareNotebook and the operations built on it.            *)
(***************************************************************************)
MaxCalls == 2         \* operations started on the clients

CallIds == 1..MaxCalls
ClientKinds == {"native", "playwright"}
Ops == {"generateInfographic", "query", "generateSummary"}

\* Ids of the backend.  A notebook is one that existed before (pre numbers
\* it) or the one a call's create-container RPC made (made is the call); a
\* source carries the notebook it belongs to and the call that added it
\* (by; 0 for a source the notebook had before).  The clients treat ids as
\* opaque strings: only NotebookOf, the backend's knowledge, looks inside.
NoId == [k |-> "none", pre |-> 0, made |-> 0, by |-> 0]
ExistingNotebook(i) == [k |-> "notebook", pre |-> i, made |-> 0, by |-> 0]
CreatedNotebook(c) == [k |-> "notebook", pre |-> 0, made |-> c, by |-> 0]
SourceIn(nb, c) == [k |-> "source", pre |-> nb.pre, made |-> nb.made, by |-> c]
NotebookOf(src) == [k |-> "notebook", pre |-> src.pre, made |-> src.made, by |-> 0]
ExistingNotebooks == {ExistingNotebook(1), ExistingNotebook(2)}
NotebookIds == ExistingNotebooks \cup {CreatedNotebook(c) : c \in CallIds}

\* The input URLs: YouTube videos and direct notebook URLs.
Urls ==
    {[kind |-> "youtube", nb |-> NoId]}
        \cup {[kind |-> "notebook", nb |-> nb] : nb \in ExistingNotebooks}

\* A parse that finds a notebook id in no URL.
ParseNotebookUrlNever(url) == NoId

\* _parseNotebookUrl: the id after "notebook/" in the URL, or null.
ParseNotebookUrl(url) == IF url.kind = "notebook" THEN url.nb ELSE NoId

(***************************************************************************)
(* JSON values of a decoded RPC payload.  A string is its characters, by   *)
(* class ("h" a hex digit, "-" a dash, "x" any other character), and the   *)
(* backend id it spells, if any.                                           *)
(***************************************************************************)
JNull == [t |-> "null", chars |-> <<>>, id |-> NoId, items |-> <<>>]
JString(chars, id) == [t |-> "string", chars |-> chars, id |-> id, items |-> <<>>]
JArray(items) == [t |-> "array", chars |-> <<>>, id |-> NoId, items |-> items]
JObject(items) == [t |-> "object", chars |-> <<>>, id |-> NoId, items |-> items]

UuidLen == 36
UuidDashes == {9, 14, 19, 24}
\* "xxxxxxxx-xxxx-xxxx-xxxx-xxxxxxxxxxxx" in hex digits
UuidChars == [i \in 1..UuidLen |-> IF i \in UuidDashes THEN "-" ELSE "h"]
TitleChars == <<"x", "x", "h", "x">>
\* a UUID with a character before it, and one cut short
PrefixedChars == <<"x">> \o UuidChars
ShortChars == SubSeq(UuidChars, 1, UuidLen - 1)

\* uuidRegex.test(s): /^[0-9a-f]{8}-[0-9a-f]{4}-[0-9a-f]{4}-[0-9a-f]{4}-[0-9a-f]{12}$/i
UuidRegexTest(chars) ==
    /\ Len(chars) = 8 + 1 + 4 + 1 + 4 + 1 + 4 + 1 + 12
    /\ \A i \in 1..Len(chars) :
          IF i \in {8 + 1, 8 + 1 + 4 + 1, 8 + 1 + 4 + 1 + 4 + 1,
                    8 + 1 + 4 + 1 + 4 + 1 + 4 + 1}
          THEN chars[i] = "-"
          ELSE chars[i] = "h"

RECURSIVE FindSourceId(_)
RECURSIVE FindSourceIdFrom(_, _)
\* _findSourceId: the first UUID-shaped string, depth first through arrays
\* only; NoId is null.
FindSourceId(obj) ==
    IF obj.t = "string"
    THEN IF UuidRegexTest(obj.chars) THEN obj.id ELSE NoId
    ELSE IF obj.t = "array" THEN FindSourceIdFrom(obj.items, 1)
    ELSE NoId

\* The for loop of _findSourceId over the items from the i-th on.
FindSourceIdFrom(items, i) ==
    IF i > Len(items) THEN NoId
    ELSE LET found == FindSourceId(items[i])
         IN  IF found # NoId THEN found ELSE FindSourceIdFrom(items, i + 1)

\* The decoded add-source payloads the backend may answer with when it took
\* the source and gave it the id sid, and when it did not.
AcceptedPayloads(sid) ==
    {JArray(<<JArray(<<JArray(<<JArray(<<JString(UuidChars, sid)>>),
                               JString(TitleChars, NoId)>>)>>)>>),
     JArray(<<JNull, JString(ShortChars, NoId), JString(UuidChars, sid)>>)}
RejectedPayloads ==
    {JNull,
     JArray(<<>>),
     JArray(<<JNull, JArray(<<JString(TitleChars, NoId)>>)>>),
     JArray(<<JString(PrefixedChars, NoId), JString(ShortChars, NoId)>>),
     JObject(<<JString(TitleChars, NoId)>>)}

\* The same payloads with the id inside an object, where _findSourceId does
\* not look.
ObjectPayloads(sid) ==
    {JArray(<<JObject(<<JString(UuidChars, sid)>>)>>)}

\* Error messages of the clients.
SourceRejected == "Failed to add source (No ID found)"
InvalidAddSource == "Invalid Add Source Response"
RpcFailed == "RPC Failed"
StreamedRpcFailed == "Streamed RPC Failed"
NullResponse == "TypeError: Cannot read properties of null"
BadJson == "SyntaxError: not valid JSON"
NoSourcesFound == "No sources found in this notebook."
PollTimeout == "Timeout waiting for artifact creation"
NoSessionTokens == "Could not find session tokens"
FailedAnswer == "Failed to generate answer."

\* RPCs by name.
RPC_CREATE_NOTEBOOK == "CCqFvf"
RPC_ADD_SOURCE == "izAoDd"
RPC_GENERATE_INFOGRAPHIC == "R7cb6c"
RPC_LIST_ARTIFACTS == "gArtLc"
RPC_LOAD_NOTEBOOK == "rLM1Ne"
RPC_GENERATE_STREAMED == "GenerateFreeFormStreamed"

NoRef == [notebookId |-> NoId, sourceId |-> NoId]
NoUrl == [kind |-> "none", nb |-> NoId]
NoLast == [url |-> NoUrl, ref |-> NoRef]

\* An operation not started yet.  Beside the locals of the code (url, cache,
\* notebookId, sourceId) a call records what it did: the RPCs it issued, how
\* many of them inside prepareNotebook, what prepareNotebook returned (ref),
\* which call had succeeded last when it read the cache (seen), and what the
\* backend answered (login, createNoId, addNoUuid), the first error that was
\* raised outside the polling loop in the step the call took last (raised),
\* and the entry the cache held for its URL when prepareNotebook read the
\* file (hit).
IdleCall ==
    [op |-> "", url |-> NoUrl, kind |-> "", pc |-> "idle",
     cache |-> [u \in Urls |-> NoRef], notebookId |-> NoId, sourceId |-> NoId,
     issued |-> {}, prepRpcs |-> 0, ref |-> NoRef, seen |-> NoLast,
     hit |-> NoRef, login |-> FALSE, createNoId |-> FALSE, addNoUuid |-> FALSE,
     raised |-> "", error |-> "", value |-> ""]

InitOrch ==
    /\ call = [c \in CallIds |-> IdleCall]
    /\ cacheFile = [u \in Urls |-> NoRef]
    /\ sessionAt = [k \in ClientKinds |-> FALSE]
    /\ page = NoId
    /\ lastOk = NoLast

\* throw new Error(e) out of the operation; its cache object is gone.
Throw(cl, e) ==
    [cl EXCEPT !.pc = "done", !.error = e, !.cache = IdleCall.cache,
               !.raised = IF @ = "" THEN e ELSE @]

\* return v from the operation; its cache object is gone.
Return(cl, v) ==
    [cl EXCEPT !.pc = "done", !.value = v, !.cache = IdleCall.cache]

\* _executeRpc / _executeStreamedRpc up to the await of the request.
ExecuteRpc(cl, rpcId, pc) ==
    [cl EXCEPT !.issued = @ \cup {rpcId}, !.pc = pc,
               !.prepRpcs = IF cl.ref = NoRef THEN @ + 1 ELSE @]

\* A return of prepareNotebook after which generateInfographic sends the
\* trigger without the sleep.
PrepareReturnsNoSleep(cl, notebookId, sourceId) ==
    LET got == [cl EXCEPT !.notebookId = notebookId, !.sourceId = sourceId,
                          !.ref = [notebookId |-> notebookId,
                                   sourceId |-> sourceId]]
    IN  IF cl.op = "generateInfographic"
        THEN [ExecuteRpc(got, RPC_GENERATE_INFOGRAPHIC, "trigger")
                 EXCEPT !.prepRpcs = cl.prepRpcs]
        ELSE IF cl.op = "query"
        THEN [ExecuteRpc(got, RPC_GENERATE_STREAMED, "stream")
                 EXCEPT !.prepRpcs = cl.prepRpcs]
        ELSE [got EXCEPT !.pc = "sleep"]

\* prepareNotebook returns { notebookId, sourceId } to the operation, which
\* runs on to its next await: query calls queryNotebook at once,
\* generateInfographic and generateSummary sleep first.
PrepareReturns(cl, notebookId, sourceId) ==
    LET got == [cl EXCEPT !.notebookId = notebookId, !.sourceId = sourceId,
                          !.ref = [notebookId |-> notebookId,
                                   sourceId |-> sourceId]]
    IN  IF cl.op = "query"
        THEN [ExecuteRpc(got, RPC_GENERATE_STREAMED, "stream")
                 EXCEPT !.prepRpcs = cl.prepRpcs]
        ELSE [got EXCEPT !.pc = "sleep"]

\* A lookup that never finds an entry.
CacheLookupMiss(cache, url) == NoRef

\* The cache lookup of prepareNotebook for a YouTube URL.
CacheLookup(cache, url) == cache[url]

\* A direct-URL lookup that never finds a sourceId.
CachedSourceIdNone(cache, url) == NoId

\* The cache lookup of prepareNotebook for a direct notebook URL: the
\* sourceId of cache[url], or null.
CachedSourceId(cache, url) == cache[url].sourceId

\* prepareNotebook after the tokens are there, up to its first await: the
\* cache file is read, then the direct-URL branch or the YouTube branch.
PrepareBody(cl0) ==
    LET cl == [cl0 EXCEPT !.cache = cacheFile, !.seen = lastOk,
                          !.hit = cacheFile[cl0.url]]
        parsedNotebookId == ParseNotebookUrl(cl.url)
        entry == CacheLookup(cacheFile, cl.url)
        sourceId == CachedSourceId(cacheFile, cl.url)
    IN  IF parsedNotebookId # NoId
        THEN IF sourceId # NoId
             THEN PrepareReturns(cl, parsedNotebookId, sourceId)
             ELSE ExecuteRpc([cl EXCEPT !.notebookId = parsedNotebookId,
                                        !.cache[cl.url] = NoRef],
                             RPC_LOAD_NOTEBOOK, "list")
        ELSE IF entry.notebookId = NoId
        THEN ExecuteRpc([cl EXCEPT !.sourceId = entry.sourceId],
                        RPC_CREATE_NOTEBOOK, "create")
        ELSE IF entry.sourceId = NoId
        THEN ExecuteRpc([cl EXCEPT !.notebookId = entry.notebookId],
                        RPC_ADD_SOURCE, "add")
        ELSE PrepareReturns(cl, entry.notebookId, entry.sourceId)

\* The call that succeeded last, after call c moved from old to new.
LastOkAfter(old, new) ==
    IF old.ref = NoRef /\ new.ref # NoRef
    THEN [url |-> new.url, ref |-> new.ref]
    ELSE lastOk

\* What a request that the backend redirects to the login page comes to in
\* _executeRpc.  The native client follows the redirect: a page that is not
\* ok throws "RPC Failed", one that is ok has no "wrb.fr" line and parses to
\* null.  In the Playwright client the page's fetch rejects or is not ok.
LoginEffects(kind) == IF kind = "native" THEN {"null", "throw"} ELSE {"throw"}

\* An operation of a client starts: generateInfographic(url), query(url, q)
\* or generateSummary(url) enters prepareNotebook.
StartCall(c, op, url, kind) ==
    /\ call[c].pc = "idle"
    /\ \A d \in CallIds : d < c => call[d].pc # "idle"
    /\ LET cl == [IdleCall EXCEPT !.op = op, !.url = url, !.kind = kind]
           new == IF sessionAt[kind] THEN PrepareBody(cl)
                  ELSE [cl EXCEPT !.pc = "refresh"]
       IN  /\ call' = [call EXCEPT ![c] = new]
           /\ lastOk' = LastOkAfter(cl, new)
    /\ UNCHANGED <<cacheFile, sessionAt, page>>
    /\ UNCHANGED notOrch

\* await this._refreshTokens() / this.start() of prepareNotebook returns or
\* throws.
RefreshReturned(c, outcome) ==
    /\ call[c].pc = "refresh"
    /\ LET cl == call[c]
           new == CASE outcome = "ok" -> PrepareBody(cl)
                    [] outcome = "login" -> Throw(cl, AuthRequired)
                    [] OTHER -> Throw(cl, NoSessionTokens)
       IN  /\ call' = [call EXCEPT ![c] = new]
           /\ lastOk' = LastOkAfter(cl, new)
    /\ sessionAt' = IF outcome = "ok"
                    THEN [sessionAt EXCEPT ![call[c].kind] = TRUE]
                    ELSE sessionAt
    /\ page' = IF call[c].kind = "playwright" THEN NoId ELSE page
    /\ UNCHANGED cacheFile
    /\ UNCHANGED notOrch

\* await _executeRpc(RPC_CREATE_NOTEBOOK) returns or throws; on return
\* notebookId = JSON.parse(createRes[0][2])[2], then the add-source request.
CreateReturned(c, login, effect) ==
    /\ call[c].pc = "create"
    /\ effect \in (IF login THEN LoginEffects(call[c].kind)
                   ELSE {"ok", "noId", "null", "throw"})
    /\ LET cl == [call[c] EXCEPT !.login = @ \/ login]
           id == IF effect = "ok" THEN CreatedNotebook(c) ELSE NoId
           got == [cl EXCEPT !.notebookId = id,
                             !.createNoId = (effect = "noId")]
           new == CASE effect = "throw" -> Throw(cl, RpcFailed)
                    [] effect = "null" -> Throw(cl, NullResponse)
                    [] OTHER ->
                         IF got.sourceId = NoId
                         THEN ExecuteRpc(got, RPC_ADD_SOURCE, "add")
                         ELSE PrepareReturns(got, got.notebookId, got.sourceId)
       IN  /\ call' = [call EXCEPT ![c] = new]
           /\ lastOk' = LastOkAfter(cl, new)
    /\ UNCHANGED <<cacheFile, sessionAt, page>>
    /\ UNCHANGED notOrch

\* The decoded payloads the add-source RPC of call c may come back with.  The
\* backend takes a source only into a notebook it has.
AddSourcePayloads(c) ==
    LET sid == SourceIn(call[c].notebookId, c)
    IN  RejectedPayloads
            \cup (IF call[c].notebookId # NoId
                  THEN AcceptedPayloads(sid) \cup ObjectPayloads(sid)
                  ELSE {})

RECURSIVE ContainsUuid(_)
\* A UUID-shaped string anywhere in the nested structure.
ContainsUuid(obj) ==
    \/ obj.t = "string" /\ UuidRegexTest(obj.chars)
    \/ \E i \in 1..Len(obj.items) : ContainsUuid(obj.items[i])

\* prepareNotebook without the check of the source id found.
AddSourceUnchecked(cl0, payload) ==
    LET cl == [cl0 EXCEPT !.addNoUuid = ~ContainsUuid(payload)]
        sourceId == FindSourceId(payload)
        entry == [notebookId |-> cl.notebookId, sourceId |-> sourceId]
    IN  PrepareReturns([cl EXCEPT !.cache[cl.url] = entry],
                       cl.notebookId, sourceId)

\* prepareNotebook with the add-source payload decoded: sourceId =
\* _findSourceId(innerSource), the throw when there is none, else the entry
\* is set in the cache object read at the start.
AddSourceDecoded(cl0, payload) ==
    LET cl == [cl0 EXCEPT !.addNoUuid = ~ContainsUuid(payload)]
        sourceId == FindSourceId(payload)
        entry == [notebookId |-> cl.notebookId, sourceId |-> sourceId]
    IN  IF sourceId = NoId
        THEN Throw(cl, SourceRejected)
        ELSE PrepareReturns([cl EXCEPT !.cache[cl.url] = entry],
                            cl.notebookId, sourceId)

\* A cache file that is written whether the source was added or not.
SaveCacheAlways(new) == new.cache

\* fs.writeFileSync(cacheFile, JSON.stringify(cache)) at the end of the
\* add-source branch: reached only when nothing was thrown before it.
SaveCache(new) ==
    IF new.pc # "done" \/ new.error = "" THEN new.cache ELSE cacheFile

\* await _executeRpc(RPC_ADD_SOURCE) returns or throws; with a source id
\* found the cache object is written to the file.
AddReturned(c, login, effect, payload) ==
    /\ call[c].pc = "add"
    /\ effect \in (IF login THEN LoginEffects(call[c].kind)
                   ELSE {"payload", "undefined", "null", "throw"})
    /\ LET cl == [call[c] EXCEPT !.login = @ \/ login]
           new == CASE effect = "throw" -> Throw(cl, RpcFailed)
                    [] effect = "null" -> Throw(cl, InvalidAddSource)
                    [] effect = "undefined" -> Throw(cl, BadJson)
                    [] OTHER -> AddSourceDecoded(cl, payload)
       IN  /\ call' = [call EXCEPT ![c] = new]
           /\ lastOk' = LastOkAfter(cl, new)
           /\ cacheFile' = SaveCache(new)
    /\ UNCHANGED <<sessionAt, page>>
    /\ UNCHANGED notOrch

\* The source id _fetchSourceId got for a direct notebook URL is cached and
\* returned.
FetchedSourceId(c, cl, sourceId) ==
    LET entry == [notebookId |-> cl.notebookId, sourceId |-> sourceId]
        cache == [cl.cache EXCEPT ![cl.url] = entry]
        new == PrepareReturns([cl EXCEPT !.cache = cache], cl.notebookId, sourceId)
    IN  /\ call' = [call EXCEPT ![c] = new]
        /\ lastOk' = LastOkAfter(cl, new)
        /\ cacheFile' = cache

\* listSources: await _executeRpc(RPC_LOAD_NOTEBOOK) returns sources of the
\* notebook asked for, or nothing usable (an empty list, another shape, an
\* error: all are swallowed).  With nothing, the native client returns [] and
\* _fetchSourceId throws; the Playwright client falls back to scraping.
ListReturned(c, login, effect) ==
    /\ call[c].pc = "list"
    /\ effect \in (IF login THEN LoginEffects(call[c].kind)
                   ELSE {"sources", "null", "throw"})
    /\ LET cl == [call[c] EXCEPT !.login = @ \/ login,
                                 !.raised = IF effect = "throw"
                                            THEN RpcFailed ELSE @]
       IN  IF effect = "sources"
           THEN /\ FetchedSourceId(c, cl, SourceIn(cl.notebookId, 0))
                /\ UNCHANGED <<sessionAt, page>>
           ELSE /\ call' = [call EXCEPT ![c] =
                       IF cl.kind = "native" THEN Throw(cl, NoSourcesFound)
                       ELSE IF page # cl.notebookId
                       THEN [cl EXCEPT !.pc = "scrapeGoto"]
                       ELSE [cl EXCEPT !.pc = "scrapeEval"]]
                /\ UNCHANGED <<cacheFile, sessionAt, page, lastOk>>
    /\ UNCHANGED notOrch

\* listSources fallback: await this.page.goto(targetUrl) returns or throws.
ScrapeGotoReturned(c, ok) ==
    /\ call[c].pc = "scrapeGoto"
    /\ IF ok
       THEN /\ page' = call[c].notebookId
            /\ call' = [call EXCEPT ![c].pc = "scrapeWait", ![c].raised = ""]
       ELSE /\ page' = page
            /\ call' = [call EXCEPT ![c] =
                          Throw([call[c] EXCEPT !.raised = ""], NoSourcesFound)]
    /\ UNCHANGED <<cacheFile, sessionAt, lastOk>>
    /\ UNCHANGED notOrch

\* listSources fallback: await waitForSelector('[data-source-id]') returns
\* (its timeout is caught); page.evaluate is called.
ScrapeWaitReturned(c) ==
    /\ call[c].pc = "scrapeWait"
    /\ call' = [call EXCEPT ![c].pc = "scrapeEval"]
    /\ UNCHANGED <<cacheFile, sessionAt, page, lastOk>>
    /\ UNCHANGED notOrch

\* listSources fallback: page.evaluate returns the [data-source-id] elements
\* of the document the page shows now.
ScrapeEvalReturned(c, loaded) ==
    /\ call[c].pc = "scrapeEval"
    /\ IF loaded /\ page # NoId
       THEN FetchedSourceId(c, [call[c] EXCEPT !.raised = ""], SourceIn(page, 0))
       ELSE /\ call' = [call EXCEPT ![c] =
                          Throw([call[c] EXCEPT !.raised = ""], NoSourcesFound)]
            /\ UNCHANGED <<cacheFile, lastOk>>
    /\ UNCHANGED <<sessionAt, page>>
    /\ UNCHANGED notOrch

\* The 5 s (generateInfographic) or 10 s (generateSummary) sleep after
\* prepareNotebook is over: the trigger or the streamed query is sent.
SleepReturned(c) ==
    /\ call[c].pc = "sleep"
    /\ call' = [call EXCEPT ![c] =
                  IF call[c].op = "generateInfographic"
                  THEN ExecuteRpc(call[c], RPC_GENERATE_INFOGRAPHIC, "trigger")
                  ELSE ExecuteRpc(call[c], RPC_GENERATE_STREAMED, "stream")]
    /\ UNCHANGED <<cacheFile, sessionAt, page, lastOk>>
    /\ UNCHANGED notOrch

\* generateInfographic: await _executeRpc(RPC_GENERATE_INFOGRAPHIC) returns
\* (the result is not looked at) or throws; then pollForArtifacts.
TriggerReturned(c, login, effect) ==
    /\ call[c].pc = "trigger"
    /\ effect \in (IF login THEN LoginEffects(call[c].kind)
                   ELSE {"ok", "null", "throw"})
    /\ LET cl == [call[c] EXCEPT !.login = @ \/ login]
       IN  call' = [call EXCEPT ![c] =
                      IF effect = "throw" THEN Throw(cl, RpcFailed)
                      ELSE ExecuteRpc(cl, RPC_LIST_ARTIFACTS, "poll")]
    /\ UNCHANGED <<cacheFile, sessionAt, page, lastOk>>
    /\ UNCHANGED notOrch

\* pollForArtifacts is over: an image URL was found, or every attempt came
\* back without one (errors of an attempt, a login redirect among them, are
\* swallowed).
PollReturned(c, login, found) ==
    /\ call[c].pc = "poll"
    /\ LET cl == [call[c] EXCEPT !.login = @ \/ login]
       IN  call' = [call EXCEPT ![c] =
                      IF found THEN Return(cl, "imageUrl")
                      ELSE Throw(cl, PollTimeout)]
    /\ UNCHANGED <<cacheFile, sessionAt, page, lastOk>>
    /\ UNCHANGED notOrch

\* queryNotebook: await _executeStreamedRpc returns or throws; an empty
\* parse is answered with the "Failed to generate answer." text.
StreamReturned(c, login, effect) ==
    /\ call[c].pc = "stream"
    /\ effect \in (IF login THEN LoginEffects(call[c].kind)
                   ELSE {"text", "null", "throw"})
    /\ LET cl == [call[c] EXCEPT !.login = @ \/ login]
       IN  call' = [call EXCEPT ![c] =
                      CASE effect = "throw" -> Throw(cl, StreamedRpcFailed)
                        [] effect = "null" -> Return(cl, FailedAnswer)
                        [] OTHER -> Return(cl, "summary")]
    /\ UNCHANGED <<cacheFile, sessionAt, page, lastOk>>
    /\ UNCHANGED notOrch

RpcEffects ==
    {"ok", "noId", "null", "throw", "payload", "undefined", "sources", "text"}

NextOrch ==
    \/ \E c \in CallIds, op \in Ops, url \in Urls, kind \in ClientKinds :
          StartCall(c, op, url, kind)
    \/ \E c \in CallIds, outcome \in {"ok", "login", "notokens"} :
          RefreshReturned(c, outcome)
    \/ \E c \in CallIds, login \in BOOLEAN, effect \in RpcEffects :
          CreateReturned(c, login, effect)
    \/ \E c \in CallIds, login \in BOOLEAN, effect \in RpcEffects :
          \E payload \in (IF effect = "payload" /\ ~login
                          THEN AddSourcePayloads(c) ELSE {JNull}) :
             AddReturned(c, login, effect, payload)
    \/ \E c \in CallIds, login \in BOOLEAN, effect \in RpcEffects :
          ListReturned(c, login, effect)
    \/ \E c \in CallIds, ok \in BOOLEAN : ScrapeGotoReturned(c, ok)
    \/ \E c \in CallIds : ScrapeWaitReturned(c)
    \/ \E c \in CallIds, loaded \in BOOLEAN : ScrapeEvalReturned(c, loaded)
    \/ \E c \in CallIds : SleepReturned(c)
    \/ \E c \in CallIds, login \in BOOLEAN, effect \in RpcEffects :
          TriggerReturned(c, login, effect)
    \/ \E c \in CallIds, login \in BOOLEAN, found \in BOOLEAN :
          PollReturned(c, login, found)
    \/ \E c \in CallIds, login \in BOOLEAN, effect \in RpcEffects :
          StreamReturned(c, login, effect)

-----------------------------------------------------------------------------
(* Properties of the clients, checked under Spec. *)

\* C3: a call whose add-source payload held no UUID-shaped string anywhere
\* has ended with the source-rejected error and has issued neither the
\* trigger-generation nor the streamed-query RPC.
C3_NoUuidRejects ==
    \A c \in CallIds :
        call[c].addNoUuid =>
            /\ call[c].pc = "done"
            /\ call[c].error = SourceRejected
            /\ call[c].issued \cap {RPC_GENERATE_INFOGRAPHIC,
                                   RPC_GENERATE_STREAMED} = {}

\* Calls of two different operations both got an add-source payload without a
\* UUID-shaped string.
C3_Witness ==
    \E c, d \in CallIds :
        /\ call[c].addNoUuid /\ call[d].addNoUuid
        /\ call[c].op = "generateInfographic"
        /\ call[d].op \in {"query", "generateSummary"}

\* C4: a call that had an RPC redirected to the login page and has ended,
\* ended with the authentication-required error.
C4_LoginRedirectIsAuthRequired ==
    \A c \in CallIds :
        call[c].login /\ call[c].pc = "done" => call[c].error = AuthRequired

C6_CreateOncePerUrl ==
    \A u \in Urls :
        ParseNotebookUrl(u) = NoId =>
            Cardinality({c \in CallIds :
                            /\ call[c].url = u
                            /\ RPC_CREATE_NOTEBOOK \in call[c].issued}) <= 1

\* C7: a cache entry with a sourceId holds the id of the notebook that source
\* belongs to.
C7_SourceBelongsToNotebook ==
    \A u \in Urls :
        cacheFile[u].sourceId # NoId =>
            NotebookOf(cacheFile[u].sourceId) = cacheFile[u].notebookId

\* C9: a call whose create-container result had no notebook id at the
\* expected position does not go on to the add-source RPC.
C9_NoIdStopsBeforeAddSource ==
    \A c \in CallIds :
        call[c].createNoId => RPC_ADD_SOURCE \notin call[c].issued

\* C12: outside the polling loop an error is never caught and passed over:
\* once an RPC or a decoding step of an operation has raised an error, the
\* operation is over and that error is the one its caller gets.
C12_ErrorsPropagate ==
    \A c \in CallIds :
        call[c].raised # "" =>
            /\ call[c].pc = "done"
            /\ call[c].error = call[c].raised

\* C21: of the calls on one client at most one is inside _refreshTokens at
\* a time; a call that needs tokens while a refresh runs starts no second
\* one.
C21_OneRefreshInFlight ==
    \A k \in ClientKinds :
        Cardinality({c \in CallIds :
                        call[c].kind = k /\ call[c].pc = "refresh"}) <= 1

\* C26: in a generateInfographic call an RPC is issued only in a step in
\* which nothing is raised, one at a time and in this order: create-notebook
\* first of all; add-source before everything but create-notebook, and when
\* there was one only as the awaited create-notebook returns; the trigger
\* only as the sleep that followed prepareNotebook's return ends, before any
\* list-artifacts; list-artifacts only as the awaited trigger returns.
C26_RpcsInOrder ==
    [][\A c \in CallIds :
          call'[c].op = "generateInfographic" =>
              LET had == call[c].issued
                  new == call'[c].issued \ had
              IN  /\ Cardinality(new) <= 1
                  /\ new # {} => call'[c].error = ""
                  /\ RPC_CREATE_NOTEBOOK \in new => had = {}
                  /\ RPC_ADD_SOURCE \in new =>
                        /\ had \subseteq {RPC_CREATE_NOTEBOOK}
                        /\ had # {} => call[c].pc = "create"
                  /\ RPC_GENERATE_INFOGRAPHIC \in new =>
                        /\ call[c].pc = "sleep"
                        /\ call[c].ref # NoRef
                        /\ RPC_LIST_ARTIFACTS \notin had
                  /\ RPC_LIST_ARTIFACTS \in new =>
                        /\ call[c].pc = "trigger"
                        /\ RPC_GENERATE_INFOGRAPHIC \in had]_vars

\* A generateInfographic call created its notebook, added the source,
\* slept, sent the trigger, polled and returned the image URL.
C26_Witness ==
    \E c \in CallIds :
        /\ call[c].op = "generateInfographic"
        /\ call[c].issued = {RPC_CREATE_NOTEBOOK, RPC_ADD_SOURCE,
                              RPC_GENERATE_INFOGRAPHIC, RPC_LIST_ARTIFACTS}
        /\ call[c].pc = "done" /\ call[c].value = "imageUrl"

\* A complete cache entry: a notebookId and a sourceId.
CompleteEntry(entry) == entry.notebookId # NoId /\ entry.sourceId # NoId

\* C23: a URL that has a complete entry in the cache file still has one
\* after every step of every call, calls for other URLs included: no write
\* of the file removes an entry.
C23_CacheEntriesStay ==
    [][\A u \in Urls :
          CompleteEntry(cacheFile[u]) => CompleteEntry(cacheFile'[u])]_vars

\* prepareNotebook of call c ends with a throw in this step.
PrepareFails(c) ==
    /\ call[c].pc \in {"refresh", "create", "add", "list", "scrapeGoto",
                       "scrapeWait", "scrapeEval"}
    /\ call'[c].pc = "done" /\ call'[c].error # ""

\* prepareNotebook of call c returns in this step.
PrepareSucceeds(c) == call[c].ref = NoRef /\ call'[c].ref # NoRef

NotebookRpcs == {RPC_CREATE_NOTEBOOK, RPC_ADD_SOURCE, RPC_LOAD_NOTEBOOK}

C20_DirectUrlKeepsItsNotebook ==
    \A c \in CallIds :
        call[c].url.kind = "notebook" =>
            /\ call[c].issued \cap {RPC_CREATE_NOTEBOOK, RPC_ADD_SOURCE} = {}
            /\ call[c].ref # NoRef => call[c].ref.notebookId = call[c].url.nb

\* prepareNotebook of a call for a direct notebook URL returned after it had
\* looked the sourceId up with the load-notebook RPC.
C20_Witness ==
    \E c \in CallIds :
        /\ call[c].url.kind = "notebook"
        /\ call[c].hit = NoRef
        /\ RPC_LOAD_NOTEBOOK \in call[c].issued
        /\ call[c].ref.notebookId = call[c].url.nb
        /\ call[c].ref.sourceId # NoId

-----------------------------------------------------------------------------
(***************************************************************************)
(* pollForArtifacts: the for loop of the two clients and the setInterval   *)
(* callback of the extension's background.js.                              *)
(***************************************************************************)
POLL_ATTEMPTS == 30           \* for (let i = 0; i < 30; i++), maxAttempts = 30

PollVariants == {"native", "playwright", "extension"}
\* What one list-artifacts RPC comes to: an image URL in the payload, a
\* payload without one, a response of another shape, an error thrown.
PollOutcomes == {"image", "noimage", "null", "throw"}
ExtensionTimeout == "ERROR: Timeout"
ExtensionCompleted == "COMPLETED"

IdlePoll ==
    [variant |-> "", pc |-> "idle", i |-> 0, rpcs |-> 0, inflight |-> 0,
     converting |-> 0, error |-> "", value |-> "", notified |-> {}]

InitPoll == poll = IdlePoll

\* A loop condition that always holds.
PollContinuesAlways(i) == TRUE

\* The loop condition of pollForArtifacts.
PollContinues(i) == i < POLL_ATTEMPTS

\* pollForArtifacts(notebookId) is called.  The clients' loop sends its first
\* request; the extension registers the interval callback.
StartPoll(variant) ==
    /\ poll.pc = "idle"
    /\ poll' = IF variant = "extension"
               THEN [IdlePoll EXCEPT !.variant = variant, !.pc = "interval"]
               ELSE IF PollContinues(0)
               THEN [IdlePoll EXCEPT !.variant = variant, !.pc = "rpc", !.rpcs = 1]
               ELSE [IdlePoll EXCEPT !.variant = variant, !.pc = "done",
                                     !.error = PollTimeout]
    /\ UNCHANGED notPoll

\* Clients: await _executeRpc(RPC_LIST_ARTIFACTS) of attempt i returns or
\* throws (caught); with an image URL pollForArtifacts returns it, else the
\* 10 s sleep starts.
PollRpcReturned(outcome) ==
    /\ poll.pc = "rpc"
    /\ poll' = IF outcome = "image"
               THEN [poll EXCEPT !.pc = "done", !.value = "imageUrl"]
               ELSE [poll EXCEPT !.pc = "sleep"]
    /\ UNCHANGED notPoll

\* Clients: the sleep is over; i++, and the next attempt or the throw after
\* the loop.
PollSleepReturned ==
    /\ poll.pc = "sleep"
    /\ poll' = IF PollContinues(poll.i + 1)
               THEN [poll EXCEPT !.i = @ + 1, !.pc = "rpc", !.rpcs = @ + 1]
               ELSE [poll EXCEPT !.i = @ + 1, !.pc = "done",
                                 !.error = PollTimeout]
    /\ UNCHANGED notPoll

\* Extension: the interval fires.  attempts++; past maxAttempts the interval
\* is cleared and the UI is told ERROR "Timeout", else a request is sent.
IntervalTick ==
    /\ poll.pc = "interval"
    /\ poll' = IF poll.i + 1 > POLL_ATTEMPTS
               THEN [poll EXCEPT !.i = @ + 1, !.pc = "cleared",
                                 !.error = ExtensionTimeout,
                                 !.notified = @ \cup {ExtensionTimeout}]
               ELSE [poll EXCEPT !.i = @ + 1, !.rpcs = @ + 1,
                                 !.inflight = @ + 1]
    /\ UNCHANGED notPoll

\* Extension: await executeRPC(RPC.LIST_ARTIFACTS) of some callback returns
\* or throws (caught); with an image URL the interval is cleared and
\* urlToBase64 starts.
ExtensionRpcReturned(outcome) ==
    /\ poll.variant = "extension"
    /\ poll.inflight > 0
    /\ poll' = IF outcome = "image"
               THEN [poll EXCEPT !.inflight = @ - 1, !.pc = "cleared",
                                 !.converting = @ + 1]
               ELSE [poll EXCEPT !.inflight = @ - 1]
    /\ UNCHANGED notPoll

\* Extension: await urlToBase64 returns or throws (caught); the UI is told
\* COMPLETED.
ExtensionBase64Returned ==
    /\ poll.converting > 0
    /\ poll' = [poll EXCEPT !.converting = @ - 1, !.value = "imageUrl",
                            !.notified = @ \cup {ExtensionCompleted}]
    /\ UNCHANGED notPoll

\* The call is over: the loop was left, or the interval is cleared and no
\* callback is still running.
PollOver ==
    \/ poll.pc = "done"
    \/ poll.pc = "cleared" /\ poll.inflight = 0 /\ poll.converting = 0

NextPoll ==
    \/ \E v \in PollVariants : StartPoll(v)
    \/ \E o \in PollOutcomes : PollRpcReturned(o)
    \/ PollSleepReturned
    \/ IntervalTick
    \/ \E o \in PollOutcomes : ExtensionRpcReturned(o)
    \/ ExtensionBase64Returned

-----------------------------------------------------------------------------
(***************************************************************************)
(* _refreshTokens of the two clients.                                      *)
(***************************************************************************)
\* Where the request for BASE_URL ends: on the site or on the login domain.
FinalUrls == {"notebooklm.google.com", "accounts.google.com"}
\* What a page holds: which of the patterns "SNlM0e", "boq_labs-tailwind-",
\* "FdrFJe" match in it.
Contents == [at : BOOLEAN, bl : BOOLEAN, fsid : BOOLEAN]
\* sessionTokens: for each token the page its value was read from ("" is
\* null, "earlier" a value an earlier refresh has left).
NoTokens == [at |-> "", bl |-> "", fsid |-> ""]
EarlierTokens == [at |-> "earlier", bl |-> "earlier", fsid |-> "earlier"]
\* The page before any scan of it.
NoContent == [at |-> FALSE, bl |-> FALSE, fsid |-> FALSE]

IdleTok ==
    [kind |-> "", headless |-> TRUE, pc |-> "idle", url |-> "",
     endedOnLogin |-> FALSE, before |-> NoTokens, sessionTokens |-> NoTokens,
     scans |-> 0, last |-> NoContent, error |-> ""]

\* A client starts without tokens; an earlier refresh may have left some
\* behind ("FdrFJe" is optional).
InitTok ==
    tok \in {IdleTok,
             [IdleTok EXCEPT !.sessionTokens = EarlierTokens],
             [IdleTok EXCEPT !.sessionTokens = [EarlierTokens EXCEPT !.fsid = ""]]}

\* A test that never sees the login domain.
IsLoginUrlNever(url) == FALSE

\* response.url.includes("accounts.google.com")
IsLoginUrl(url) == url = "accounts.google.com"

\* The three patterns are matched against content: one scan of the page.
Scanned(t, content) == [t EXCEPT !.scans = @ + 1, !.last = content]

\* An end of _refreshTokens that stores what matched before it throws.
StoreTokensThenThrow(t, content, url) ==
    [Scanned(t, content) EXCEPT
        !.pc = "done",
        !.error = IF content.at /\ content.bl THEN "" ELSE NoSessionTokens,
        !.sessionTokens = [at |-> IF content.at THEN url ELSE "",
                           bl |-> IF content.bl THEN url ELSE "",
                           fsid |-> IF content.fsid THEN url ELSE ""]]

\* The end of _refreshTokens: the tokens matched in content, read from the
\* page at url, are stored, or the throw when "at" or "bl" is missing.
StoreTokens(t, content, url) ==
    IF content.at /\ content.bl
    THEN [Scanned(t, content) EXCEPT
             !.pc = "done",
             !.sessionTokens = [at |-> url, bl |-> url,
                                fsid |-> IF content.fsid THEN url ELSE ""]]
    ELSE [Scanned(t, content) EXCEPT !.pc = "done", !.error = NoSessionTokens]

\* _refreshTokens is called on a client: the native client fetches BASE_URL,
\* the Playwright client (headless or not) navigates its page there.
StartRefresh(kind, headless) ==
    /\ tok.pc \in {"idle", "done"}
    /\ kind = "native" => headless
    /\ tok' = [IdleTok EXCEPT !.kind = kind, !.headless = headless,
                              !.pc = "goto", !.before = tok.sessionTokens,
                              !.sessionTokens = tok.sessionTokens]
    /\ UNCHANGED notTok

\* The request for BASE_URL has ended on finalUrl.  Native client: the html
\* is read, the login test, the scan.  Playwright client: the login test; in
\* headless mode the throw, else the wait for the user's login.
RootPageReturned(finalUrl, content) ==
    /\ tok.pc = "goto"
    /\ LET t == [tok EXCEPT !.url = finalUrl,
                            !.endedOnLogin = (finalUrl = "accounts.google.com")]
       IN  tok' = IF IsLoginUrl(finalUrl)
                  THEN IF tok.kind = "native" \/ tok.headless
                       THEN [t EXCEPT !.pc = "done", !.error = AuthRequired]
                       ELSE [t EXCEPT !.pc = "waitForURL"]
                  ELSE IF tok.kind = "native"
                  THEN StoreTokens(t, content, finalUrl)
                  ELSE [t EXCEPT !.pc = "content"]
    /\ UNCHANGED notTok

\* Playwright client, not headless: the user has logged in and the page has
\* reached the site; waitForURL (timeout 0) returns.
WaitForUrlReturned ==
    /\ tok.pc = "waitForURL"
    /\ tok' = [tok EXCEPT !.url = "notebooklm.google.com", !.pc = "content"]
    /\ UNCHANGED notTok

\* Playwright client: await page.content() returns; with "at" or "bl"
\* missing the page is read again after 2 s.
ContentReturned(content) ==
    /\ tok.pc = "content"
    /\ tok' = IF content.at /\ content.bl
              THEN StoreTokens(tok, content, tok.url)
              ELSE [Scanned(tok, content) EXCEPT !.pc = "contentAgain"]
    /\ UNCHANGED notTok

\* Playwright client: the second page.content() returns.
ContentAgainReturned(content) ==
    /\ tok.pc = "contentAgain"
    /\ tok' = StoreTokens(tok, content, tok.url)
    /\ UNCHANGED notTok

NextTok ==
    \/ \E k \in ClientKinds, h \in BOOLEAN : StartRefresh(k, h)
    \/ \E u \in FinalUrls, content \in Contents : RootPageReturned(u, content)
    \/ WaitForUrlReturned
    \/ \E content \in Contents : ContentReturned(content)
    \/ \E content \in Contents : ContentAgainReturned(content)

-----------------------------------------------------------------------------
(***************************************************************************)
(* The response parsers: _parseRpcResponse, _parseStreamedResponse,        *)
(* _findBalancedEnd and _extractWrbText of the two clients, parseRPCResponse*)
(* of background.js.  A text is the sequence of its characters.  A loop    *)
(* over the characters of a text is written as a fold that halves its      *)
(* range: the steps are taken in the loop's order, left to right.          *)
(***************************************************************************)
Quote == "\""
Backslash == "\\"
Newline == "\n"
Whitespace == {" ", Newline}
Digits == {"0", "4", "5"}
MarkerChars == <<"w", "r", "b", ".", "f", "r">>      \* "wrb.fr"

\* JSON values: null, numbers (their digits), strings (their characters),
\* arrays.  SyntaxError is what JSON.parse throws.
SNull == [t |-> "null", chars |-> <<>>, items |-> <<>>]
SNumber(digits) == [t |-> "number", chars |-> digits, items |-> <<>>]
SString(chars) == [t |-> "string", chars |-> chars, items |-> <<>>]
SArray(items) == [t |-> "array", chars |-> <<>>, items |-> items]
SyntaxError == [t |-> "SyntaxError", chars |-> <<>>, items |-> <<>>]

\* The least and the greatest number of a set that is not empty.
Least(S) == CHOOSE x \in S : \A y \in S : x <= y
Greatest(S) == CHOOSE x \in S : \A y \in S : x >= y

\* String.prototype.trim
Trim(text) ==
    LET solid == {i \in 1..Len(text) : text[i] \notin Whitespace}
    IN  IF solid = {} THEN <<>>
        ELSE SubSeq(text, Least(solid), Greatest(solid))

\* text.startsWith(prefix)
StartsWith(text, prefix) ==
    /\ Len(text) >= Len(prefix)
    /\ SubSeq(text, 1, Len(prefix)) = prefix

\* text.indexOf(ch, pos), -1 when there is none
IndexOf(text, ch, pos) ==
    LET hits == {i \in pos..Len(text) : text[i] = ch}
    IN  IF hits = {} THEN -1 ELSE Least(hits)

\* text.split('\n'): the lines of the text.
Split(text) ==
    LET breaks == {i \in 1..Len(text) : text[i] = Newline}
        starts == {1} \cup {i + 1 : i \in breaks}
        EndOf(s) == Least({i \in breaks : i >= s} \cup {Len(text) + 1})
        Nth(k) == CHOOSE s \in starts : Cardinality({x \in starts : x < s}) = k - 1
    IN  [k \in 1..Cardinality(starts) |-> SubSeq(text, Nth(k), EndOf(Nth(k)) - 1)]

\* One character of a string as JSON.stringify writes it between quotes.
EscapeChar(ch) ==
    CASE ch = Quote -> <<Backslash, Quote>>
      [] ch = Backslash -> <<Backslash, Backslash>>
      [] ch = Newline -> <<Backslash, "n">>
      [] OTHER -> <<ch>>

RECURSIVE EscapeChars(_, _, _)
\* The characters lo..hi of a string, escaped.
EscapeChars(chars, lo, hi) ==
    IF lo > hi THEN <<>>
    ELSE IF lo = hi THEN EscapeChar(chars[lo])
    ELSE LET mid == (lo + hi) \div 2
         IN  EscapeChars(chars, lo, mid) \o EscapeChars(chars, mid + 1, hi)

RECURSIVE Stringify(_)
RECURSIVE StringifyItems(_, _)
\* JSON.stringify, as the backend writes a value.
Stringify(v) ==
    CASE v.t = "null" -> <<"n", "u", "l", "l">>
      [] v.t = "number" -> v.chars
      [] v.t = "string" ->
            <<Quote>> \o EscapeChars(v.chars, 1, Len(v.chars)) \o <<Quote>>
      [] OTHER -> <<"[">> \o StringifyItems(v.items, 1) \o <<"]">>

StringifyItems(items, i) ==
    IF i > Len(items) THEN <<>>
    ELSE Stringify(items[i])
            \o (IF i < Len(items) THEN <<",">> ELSE <<>>)
            \o StringifyItems(items, i + 1)

\* A parse that failed at some character.
Failed == [v |-> SyntaxError, next |-> 0]

\* The scan of a string's characters: chars read so far, whether the last
\* character was an escaping backslash, and the position after the closing
\* quote (0 while the string is open, -1 when it cannot be read).
StringStep(st, ch, i) ==
    IF st.next # 0 THEN st
    ELSE IF st.escape
    THEN CASE ch \in {Quote, Backslash} ->
                [st EXCEPT !.chars = Append(@, ch), !.escape = FALSE]
           [] ch = "n" -> [st EXCEPT !.chars = Append(@, Newline), !.escape = FALSE]
           [] OTHER -> [st EXCEPT !.next = -1]
    ELSE CASE ch = Backslash -> [st EXCEPT !.escape = TRUE]
           [] ch = Quote -> [st EXCEPT !.next = i + 1]
           [] ch = Newline -> [st EXCEPT !.next = -1]
           [] OTHER -> [st EXCEPT !.chars = Append(@, ch)]

RECURSIVE StringScan(_, _, _, _)
StringScan(text, lo, hi, st) ==
    IF st.next # 0 \/ lo > hi THEN st
    ELSE IF lo = hi THEN StringStep(st, text[lo], lo)
    ELSE LET mid == (lo + hi) \div 2
         IN  StringScan(text, mid + 1, hi, StringScan(text, lo, mid, st))

\* The characters of a string, after the opening quote at i - 1.
ParseChars(text, i) ==
    LET st == StringScan(text, i, Len(text),
                         [chars |-> <<>>, escape |-> FALSE, next |-> 0])
    IN  IF st.next > 0 THEN [v |-> SString(st.chars), next |-> st.next]
        ELSE Failed

\* The digits of a number that starts at i.
ParseDigits(text, i) ==
    LET stop == Least({j \in i..Len(text) : text[j] \notin Digits}
                          \cup {Len(text) + 1})
    IN  [v |-> SNumber(SubSeq(text, i, stop - 1)), next |-> stop]

RECURSIVE ParseValue(_, _)
RECURSIVE ParseItems(_, _, _)
\* JSON.parse, one value of the text from position i on: the value and the
\* position after it.
ParseValue(text, i) ==
    IF i > Len(text) THEN Failed
    ELSE CASE text[i] = "[" ->
                IF i + 1 <= Len(text) /\ text[i + 1] = "]"
                THEN [v |-> SArray(<<>>), next |-> i + 2]
                ELSE ParseItems(text, i + 1, <<>>)
           [] text[i] = Quote -> ParseChars(text, i + 1)
           [] text[i] \in Digits -> ParseDigits(text, i)
           [] text[i] = "n" ->
                IF /\ i + 3 <= Len(text)
                   /\ SubSeq(text, i, i + 3) = <<"n", "u", "l", "l">>
                THEN [v |-> SNull, next |-> i + 4]
                ELSE Failed
           [] OTHER -> Failed

\* The elements of an array, after "[" or ",".
ParseItems(text, i, items) ==
    LET one == ParseValue(text, i)
    IN  IF one.v = SyntaxError \/ one.next > Len(text) THEN Failed
        ELSE CASE text[one.next] = "," ->
                     ParseItems(text, one.next + 1, Append(items, one.v))
               [] text[one.next] = "]" ->
                     [v |-> SArray(Append(items, one.v)), next |-> one.next + 1]
               [] OTHER -> Failed

\* JSON.parse(text): the value, or SyntaxError when the text is not one JSON
\* value.
JsonParse(text) ==
    LET body == Trim(text)
        one == ParseValue(body, 1)
    IN  IF one.v # SyntaxError /\ one.next = Len(body) + 1 THEN one.v
        ELSE SyntaxError

\* A test that takes any parsed line for a frame.
IsWrbFrameAny(data) == TRUE

\* data && data[0] && data[0][0] === 'wrb.fr'
IsWrbFrame(data) ==
    /\ data.t = "array"
    /\ Len(data.items) >= 1
    /\ data.items[1].t = "array"
    /\ Len(data.items[1].items) >= 1
    /\ data.items[1].items[1] = SString(MarkerChars)

\* What the body of the for loop of _parseRpcResponse does with one line:
\* the parsed frame when the line, trimmed, starts with "[[", parses and is a
\* frame; SNull when the loop goes on (a line that does not parse is passed
\* over by the empty catch).
FrameOfLine(line) ==
    LET trimmed == Trim(line)
        data == JsonParse(trimmed)
    IN  IF /\ StartsWith(trimmed, <<"[", "[">>)
           /\ data # SyntaxError
           /\ IsWrbFrame(data)
        THEN data
        ELSE SNull

RECURSIVE ParseRpcLines(_, _)
\* The for loop of _parseRpcResponse over the lines from the i-th on; null
\* (SNull) after the last line.
ParseRpcLines(lines, i) ==
    IF i > Len(lines) THEN SNull
    ELSE IF FrameOfLine(lines[i]) # SNull THEN FrameOfLine(lines[i])
    ELSE ParseRpcLines(lines, i + 1)

\* _parseRpcResponse(text), parseRPCResponse(text)
ParseRpcResponse(text) == ParseRpcLines(Split(text), 1)

\* A loop body that takes a backslash for an ordinary character.
BalancedStepNoEscape(st, ch, i) ==
    IF st.found # 0 THEN st
    ELSE CASE ch = Quote -> [st EXCEPT !.inString = ~@]
           [] st.inString -> st
           [] ch = "[" \/ ch = "{" -> [st EXCEPT !.depth = @ + 1]
           [] ch = "]" -> [st EXCEPT !.depth = @ - 1,
                                     !.found = IF st.depth - 1 = 0 THEN i ELSE 0]
           [] ch = "}" -> [st EXCEPT !.depth = @ - 1]
           [] OTHER -> st

\* The body of the for loop of _findBalancedEnd at character ch, position i:
\* found is the position returned, 0 while the loop runs.
BalancedStep(st, ch, i) ==
    IF st.found # 0 THEN st
    ELSE IF st.escape THEN [st EXCEPT !.escape = FALSE]
    ELSE CASE ch = Backslash -> [st EXCEPT !.escape = TRUE]
           [] ch = Quote -> [st EXCEPT !.inString = ~@]
           [] st.inString -> st
           [] ch = "[" \/ ch = "{" -> [st EXCEPT !.depth = @ + 1]
           [] ch = "]" -> [st EXCEPT !.depth = @ - 1,
                                     !.found = IF st.depth - 1 = 0 THEN i ELSE 0]
           [] ch = "}" -> [st EXCEPT !.depth = @ - 1]
           [] OTHER -> st

RECURSIVE BalancedScan(_, _, _, _)
BalancedScan(str, lo, hi, st) ==
    IF st.found # 0 \/ lo > hi THEN st
    ELSE IF lo = hi THEN BalancedStep(st, str[lo], lo)
    ELSE LET mid == (lo + hi) \div 2
         IN  BalancedScan(str, mid + 1, hi, BalancedScan(str, lo, mid, st))

\* _findBalancedEnd(str, start): the position of the bracket that closes the
\* one at start, or -1.
FindBalancedEnd(str, start) ==
    LET st == BalancedScan(str, start, Len(str),
                           [depth |-> 0, inString |-> FALSE, escape |-> FALSE,
                            found |-> 0])
    IN  IF st.found # 0 THEN st.found ELSE -1

\* A walker that takes no array for a transcript span.
IsTranscriptSpanNever(items) == FALSE

\* The anti-transcript test on an array of the payload:
\* [number, number, ...] or [null, number, number, ...]
IsTranscriptSpan(items) ==
    \/ Len(items) >= 2 /\ items[1].t = "number" /\ items[2].t = "number"
    \/ /\ Len(items) >= 3
       /\ items[1].t = "null"
       /\ items[2].t = "number"
       /\ items[3].t = "number"

\* A filter that keeps every string that is not empty.
KeepsLeafAny(val) == val # <<>>

\* if (val && val.length !== 36), for val the trimmed leaf string
KeepsLeaf(val) == val # <<>> /\ Len(val) # 36

\* An extraction that walks the whole decoded payload.
PayloadRootWhole(decoded) == <<decoded>>

\* if (Array.isArray(decoded) && decoded.length > 2) walk(decoded[0], true):
\* the part of the decoded payload that is walked, if any.
PayloadRoot(decoded) ==
    IF decoded.t = "array" /\ Len(decoded.items) > 2
    THEN <<decoded.items[1]>>
    ELSE <<>>

RECURSIVE Walk(_, _)
RECURSIVE WalkItems(_, _, _)
\* walk(n, inPayload) of _extractWrbText: the strings it pushes to results.
Walk(n, inPayload) ==
    IF n.t = "array"
    THEN IF /\ Len(n.items) >= 3
            /\ n.items[1] = SString(MarkerChars)
            /\ n.items[3].t = "string"
         THEN LET innerJson == n.items[3].chars
                  decoded == JsonParse(innerJson)
              IN  IF /\ StartsWith(Trim(innerJson), <<"[">>)
                     /\ decoded # SyntaxError
                  THEN WalkItems(PayloadRoot(decoded), 1, TRUE)
                  ELSE <<>>
         ELSE IF inPayload /\ IsTranscriptSpan(n.items) THEN <<>>
         ELSE WalkItems(n.items, 1, inPayload)
    ELSE IF n.t = "string" /\ inPayload
    THEN LET val == Trim(n.chars)
         IN  IF KeepsLeaf(val) THEN <<val>> ELSE <<>>
    ELSE <<>>

\* n.forEach(c => walk(c, inPayload)), from the i-th element on
WalkItems(items, i, inPayload) ==
    IF i > Len(items) THEN <<>>
    ELSE Walk(items[i], inPayload) \o WalkItems(items, i + 1, inPayload)

RECURSIVE Join(_, _)
\* results.join("\n"), from the i-th string on
Join(results, i) ==
    IF i > Len(results) THEN <<>>
    ELSE results[i]
            \o (IF i < Len(results) THEN <<Newline>> ELSE <<>>)
            \o Join(results, i + 1)

\* _extractWrbText(node)
ExtractWrbText(node) == Join(Walk(node, FALSE), 1)

\* A parser that appends the text of every chunk.
AppendChunk(fullText, extracted) == fullText \o Trim(extracted) \o <<Newline>>

\* fullText = extracted.trim() + "\n"
LastWriteWins(fullText, extracted) == Trim(extracted) \o <<Newline>>

\* A test that lets every chunk replace the text.
ReplacesAlways(extracted) == TRUE

\* if (extracted): only a non-empty extraction replaces fullText.
Replaces(extracted) == extracted # <<>>

RECURSIVE ScanChunks(_, _, _)
\* The while loop of _parseStreamedResponse from position pos on.
ScanChunks(textBody, pos, fullText) ==
    IF pos > Len(textBody) THEN fullText
    ELSE LET startBracket == IndexOf(textBody, "[", pos)
             endBracket == FindBalancedEnd(textBody, startBracket)
             obj == JsonParse(SubSeq(textBody, startBracket, endBracket))
             extracted == ExtractWrbText(obj)
         IN  IF startBracket = -1 THEN fullText
             ELSE IF endBracket = -1
             THEN ScanChunks(textBody, startBracket + 1, fullText)
             ELSE ScanChunks(textBody, endBracket + 1,
                             IF obj # SyntaxError /\ Replaces(extracted)
                             THEN LastWriteWins(fullText, extracted)
                             ELSE fullText)

XssiGuard == <<")", "]", "}", "'">>

\* _parseStreamedResponse(entryBuffer)
ParseStreamedResponse(entryBuffer) ==
    LET textBody == IF StartsWith(entryBuffer, XssiGuard)
                    THEN Trim(SubSeq(entryBuffer, 5, Len(entryBuffer)))
                    ELSE entryBuffer
    IN  Trim(ScanChunks(textBody, 1, <<>>))

(***************************************************************************)
(* The responses the parsers are given.  The backend writes a streamed     *)
(* response as the guard and then, for every chunk, a line with a length   *)
(* and the chunk: one frame whose third element is the JSON text of the    *)
(* payload.                                                                *)
(***************************************************************************)
MaxChunks == 2        \* chunks of a streamed response
MaxLines == 3         \* lines of a batchexecute response

Chars(ch, n) == [i \in 1..n |-> ch]
SomeText == <<"s", "o", "m", "e", " ", "t", "e", "x", "t">>
\* Leaf strings: prose, strings of 35, 36 and 37 characters, and strings that
\* are 36 characters long only with, or only without, the blank at their end.
LeafStrings ==
    {<<"p">>, <<"q">>, Chars("a", 35), Chars("u", 36), Chars("c", 37),
     Chars("d", 36) \o <<" ">>, Chars("e", 35) \o <<" ">>}

Frame(payload) ==
    SArray(<<SArray(<<SString(MarkerChars), SNull, SString(Stringify(payload))>>)>>)
\* [4000, 5000, ["some text"]] and [null, 4, 5, ["some text"]]
SpanA == SArray(<<SNumber(<<"4", "0", "0", "0">>), SNumber(<<"5", "0", "0", "0">>),
                  SArray(<<SString(SomeText)>>)>>)
SpanB == SArray(<<SNull, SNumber(<<"4">>), SNumber(<<"5">>),
                  SArray(<<SArray(<<SString(SomeText)>>)>>)>>)

\* Decoded payloads: [answer, null, null] with the leaf strings in the
\* answer, beside and beneath transcript spans, and payloads of other shapes.
Payloads ==
    {SArray(<<SArray(<<SString(s)>>), SNull, SNull>>) : s \in LeafStrings}
    \cup {SArray(<<SArray(<<SString(<<"p">>), SArray(<<SString(s)>>)>>),
                   SNull, SNull>>) : s \in LeafStrings \ {<<"p">>}}
    \cup {SArray(<<SArray(<<SString(<<"p">>), span, SString(<<"q">>)>>),
                   SNull, SNull>>) : span \in {SpanA, SpanB}}
    \cup {SArray(<<SpanA, SNull, SNull>>),
          SpanA,
          SArray(<<SArray(<<SString(SomeText)>>), SNull, SNull>>),
          SArray(<<SArray(<<SNumber(<<"4">>), SString(<<"p">>), SNumber(<<"5">>),
                           SString(<<"q">>)>>), SNull, SNull>>),
          SArray(<<SString(<<"p">>), SString(<<"q">>), SString(Chars("c", 37))>>),
          SArray(<<SArray(<<SString(<<"p">>), SString(<<"q">>)>>)>>),
          SArray(<<SArray(<<SString(<<"p">>)>>), SString(<<"q">>)>>)}

RECURSIVE ChunksText(_, _)
\* The chunks from the i-th on, each after a line with a length.
ChunksText(payloads, i) ==
    IF i > Len(payloads) THEN <<>>
    ELSE <<"4", "5", Newline>> \o Stringify(Frame(payloads[i])) \o <<Newline>>
            \o ChunksText(payloads, i + 1)

StreamedText(payloads) == XssiGuard \o <<Newline, Newline>> \o ChunksText(payloads, 1)

\* One chunk whose top-level array holds the wrb.fr triples of all payloads.
JointText(payloads) ==
    XssiGuard \o <<Newline, Newline, "4", "5", Newline>>
        \o Stringify(SArray([i \in 1..Len(payloads) |->
                                Frame(payloads[i]).items[1]]))
        \o <<Newline>>

\* The lines of a batchexecute response, with what each is: a frame, a line
\* that starts with "[[" and is none (no marker, an empty first element, cut
\* short), another line.
FrameA == Frame(SArray(<<SNumber(<<"4">>)>>))
FrameB == Frame(SArray(<<SNumber(<<"5">>)>>))
NoMarker == SArray(<<SArray(<<SString(<<"d", "i">>), SNumber(<<"4">>)>>)>>)
Line(kind, text, value) == [kind |-> kind, text |-> text, value |-> value]
Lines ==
    {Line("frame", Stringify(FrameA), FrameA),
     Line("frame", Stringify(FrameB), FrameB),
     Line("frame", <<" ", " ">> \o Stringify(FrameB) \o <<" ">>, FrameB),
     Line("noframe", Stringify(NoMarker), SNull),
     Line("noframe", <<"[", "[", "]", "]">>, SNull),
     Line("noframe", SubSeq(Stringify(FrameA), 1, 12), SNull),
     Line("other", XssiGuard, SNull),
     Line("other", <<"4", "5">>, SNull),
     Line("other", <<>>, SNull),
     Line("other", Stringify(SArray(<<SString(MarkerChars)>>)), SNull)}

RECURSIVE LinesText(_, _)
LinesText(lines, i) ==
    IF i > Len(lines) THEN <<>>
    ELSE lines[i].text
            \o (IF i < Len(lines) THEN <<Newline>> ELSE <<>>)
            \o LinesText(lines, i + 1)

\* Strings with the characters the bracket scanner has to tell apart.
BracketStrings ==
    {<<"p">>, <<>>, <<"[">>, <<"]">>, <<"{">>, <<"}">>, <<Quote>>, <<Backslash>>,
     <<Backslash, Quote>>, <<Quote, "]">>, <<"]", Backslash>>,
     <<"[", Quote, "]", "]">>, <<Backslash, Backslash, Quote, "]">>}

\* Well-formed JSON arrays, as texts: arrays of such strings, flat, nested
\* and double-encoded as a frame's payload, and arrays that hold objects.
ArrayTexts ==
    {Stringify(v) :
        v \in {SArray(<<>>), SArray(<<SArray(<<>>), SNumber(<<"4">>)>>)}
            \cup {SArray(<<SString(a)>>) : a \in BracketStrings}
            \cup {SArray(<<SString(a), SArray(<<SString(b)>>), SNull>>) :
                      a \in BracketStrings, b \in BracketStrings}
            \cup {Frame(SArray(<<SString(a)>>)) : a \in BracketStrings}}
    \cup {<<"[", "{", "}", "]">>,
          <<"[", "{", Quote, "a", Quote, ":", "[", "4", "]", "}", ",", "5", "]">>,
          <<"[", "{", Quote, "]", Quote, ":", Quote, "}", Quote, "}", "]">>}

\* What stands before and after the array in the text that is scanned: the
\* array may be a chunk of a stream or an element of a larger array.
Surroundings ==
    {[before |-> <<>>, after |-> <<>>],
     [before |-> <<"4", "5", Newline>>, after |-> <<Newline, "[", "]">>],
     [before |-> <<"[", Quote, "[", Quote, ",">>,
      after |-> <<",", Quote, "]", Quote, "]", "]">>]}

\* A parser call: the function, the text it is given (with the payloads or
\* the lines the text was written from; joint when the payloads share one
\* chunk; for the bracket scanner the position it starts at and the position
\* of the bracket that closes the array), and what it returned.
IdleParser ==
    [fn |-> "", pc |-> "idle", text |-> <<>>, payloads |-> <<>>, lines |-> <<>>,
     joint |-> FALSE, start |-> 0, closing |-> 0,
     summary |-> <<>>, frame |-> SNull, endBracket |-> 0]

StreamedResponses ==
    {[IdleParser EXCEPT !.fn = "_parseStreamedResponse", !.pc = "called",
                        !.payloads = ps, !.text = StreamedText(ps)] :
        ps \in UNION {[1..n -> Payloads] : n \in 1..MaxChunks}}
    \cup
    {[IdleParser EXCEPT !.fn = "_parseStreamedResponse", !.pc = "called",
                        !.payloads = ps, !.joint = TRUE,
                        !.text = JointText(ps)] :
        ps \in UNION {[1..n -> Payloads] : n \in 2..MaxChunks}}

RpcResponses ==
    {[IdleParser EXCEPT !.fn = "_parseRpcResponse", !.pc = "called",
                        !.lines = ls, !.text = LinesText(ls, 1)] :
        ls \in UNION {[1..n -> Lines] : n \in 1..MaxLines}}

BracketScans ==
    {[IdleParser EXCEPT !.fn = "_findBalancedEnd", !.pc = "called",
                        !.text = s.before \o a \o s.after,
                        !.start = Len(s.before) + 1,
                        !.closing = Len(s.before) + Len(a)] :
        a \in ArrayTexts, s \in Surroundings}

\* _parseStreamedResponse(entryBuffer) runs and returns.
StreamedResponseParsed ==
    /\ parser.pc = "called"
    /\ parser.fn = "_parseStreamedResponse"
    /\ parser' = [parser EXCEPT !.pc = "returned",
                                !.summary = ParseStreamedResponse(parser.text)]
    /\ UNCHANGED notParser

\* _parseRpcResponse(text) runs and returns.
RpcResponseParsed ==
    /\ parser.pc = "called"
    /\ parser.fn = "_parseRpcResponse"
    /\ parser' = [parser EXCEPT !.pc = "returned",
                                !.frame = ParseRpcResponse(parser.text)]
    /\ UNCHANGED notParser

\* _findBalancedEnd(str, start) runs and returns.
BalancedEndFound ==
    /\ parser.pc = "called"
    /\ parser.fn = "_findBalancedEnd"
    /\ parser' = [parser EXCEPT
                     !.pc = "returned",
                     !.endBracket = FindBalancedEnd(parser.text, parser.start)]
    /\ UNCHANGED notParser

NextParser == StreamedResponseParsed \/ RpcResponseParsed \/ BalancedEndFound

-----------------------------------------------------------------------------
(***************************************************************************)
(* The native client's requests: getCookieHeader and fetchWithCookies.     *)
(* Host names, cookie domains and paths are their characters, since the    *)
(* code matches them with startsWith and endsWith.                         *)
(***************************************************************************)
maxRedirects == 5

\* text.endsWith(suffix)
EndsWith(text, suffix) ==
    /\ Len(text) >= Len(suffix)
    /\ SubSeq(text, Len(text) - Len(suffix) + 1, Len(text)) = suffix

\* The site ("n.g.co" for notebooklm.google.com), its parent domain, a
\* sibling under the parent, a host whose name merely ends with the parent's
\* name, and a host elsewhere.
SiteHost == <<"n", ".", "g", ".", "c", "o">>
Hosts ==
    {SiteHost,
     <<"g", ".", "c", "o">>,
     <<"a", ".", "g", ".", "c", "o">>,
     <<"x", "g", ".", "c", "o">>,
     <<"e", ".", "i", "o">>}
Paths == {<<"/">>, <<"/", "a">>, <<"/", "a", "/", "b">>, <<"/", "a", "b">>}
FetchUrls == [host : Hosts, pathname : Paths]
NoFetchUrl == [host |-> <<>>, pathname |-> <<>>]

\* this.cookies, in the order of the array: a cookie of the parent domain,
\* a host-only cookie of the site, a cookie with a path, and a cookie that
\* shares its name with the first and is more specific.
Cookies ==
    <<[name |-> "SID", domain |-> <<".", "g", ".", "c", "o">>, path |-> <<"/">>],
      [name |-> "OSID", domain |-> SiteHost, path |-> <<"/">>],
      [name |-> "APP", domain |-> <<".", "g", ".", "c", "o">>,
       path |-> <<"/", "a">>],
      [name |-> "SID", domain |-> SiteHost, path |-> <<"/", "a">>]>>

\* The domain test of getCookieHeader.
DomainMatch(cookie, host) ==
    LET cookieDomain == IF StartsWith(cookie.domain, <<".">>)
                        THEN SubSeq(cookie.domain, 2, Len(cookie.domain))
                        ELSE cookie.domain
    IN  IF StartsWith(cookie.domain, <<".">>)
        THEN EndsWith(host, cookieDomain) \/ host = cookieDomain
        ELSE host = cookieDomain

\* The path test of getCookieHeader.
PathMatch(cookie, pathname) == StartsWith(pathname, cookie.path)

\* getCookieHeader(targetUrl): the cookies the header names, one per cookie
\* name, the one with the longest path, then the longest domain, then the
\* first in the array.
GetCookieHeader(targetUrl) ==
    LET valid == {i \in 1..Len(Cookies) :
                     /\ DomainMatch(Cookies[i], targetUrl.host)
                     /\ PathMatch(Cookies[i], targetUrl.pathname)}
        Before(i, j) ==
            \/ Len(Cookies[i].path) > Len(Cookies[j].path)
            \/ /\ Len(Cookies[i].path) = Len(Cookies[j].path)
               /\ \/ Len(Cookies[i].domain) > Len(Cookies[j].domain)
                  \/ /\ Len(Cookies[i].domain) = Len(Cookies[j].domain)
                     /\ i < j
    IN  {Cookies[i] : i \in {k \in valid :
                                \A j \in valid \ {k} :
                                    Cookies[j].name = Cookies[k].name => Before(k, j)}}

\* A fetchWithCookies call: the URL of the request in flight, the cookies
\* its Cookie header names, the redirects followed, the response returned.
\* Beside them the model counts the requests the call has sent (requests)
\* and keeps the Location header of the response returned (location).
IdleFetch ==
    [pc |-> "idle", currentUrl |-> NoFetchUrl, header |-> {},
     redirectCount |-> 0, status |-> 0, requests |-> 0,
     location |-> NoFetchUrl]

\* The statuses a response can have, and what its Location header holds.
Statuses == {200, 302, 401}
Locations == FetchUrls \cup {NoFetchUrl}

\* A redirect test without the limit.
IsRedirectUnlimited(status, redirectCount) == status >= 300 /\ status < 400

\* response.status >= 300 && response.status < 400
\*     && redirectCount < maxRedirects
IsRedirect(status, redirectCount) ==
    /\ status >= 300 /\ status < 400
    /\ redirectCount < maxRedirects

\* fetchWithCookies(url): the first request, to a URL of the site.
FetchWithCookies(url) ==
    /\ fetch.pc \in {"idle", "done"}
    /\ url.host = SiteHost
    /\ fetch' = [IdleFetch EXCEPT !.pc = "fetch", !.currentUrl = url,
                                  !.header = GetCookieHeader(url),
                                  !.requests = 1]
    /\ UNCHANGED notFetch

\* await fetch(currentUrl, { redirect: 'manual' }) returns: a redirect is
\* followed with the header of the next URL, anything else is returned.
FetchReturned(status, location) ==
    /\ fetch.pc = "fetch"
    /\ fetch' = IF /\ IsRedirect(status, fetch.redirectCount)
                   /\ location # NoFetchUrl
                THEN [fetch EXCEPT !.currentUrl = location,
                                   !.header = GetCookieHeader(location),
                                   !.redirectCount = @ + 1,
                                   !.requests = @ + 1]
                ELSE [fetch EXCEPT !.pc = "done", !.status = status,
                                   !.location = location]
    /\ UNCHANGED notFetch

NextFetch ==
    \/ \E url \in FetchUrls : FetchWithCookies(url)
    \/ \E status \in Statuses, location \in Locations :
          FetchReturned(status, location)

-----------------------------------------------------------------------------
(***************************************************************************)
(* server.ts: the activeNotebooks list.  An entry is its url and its       *)
(* notebookId; title, lastUsedAt and sourceIds ride along and are left out.*)
(* Beside the list the model records which URLs were set, most recent      *)
(* first (recency), the arguments of the latest call (lastSet) and what    *)
(* getActiveNotebook answered in the step just taken (got).                *)
(***************************************************************************)
KEEP_LAST == 5

SessionUrls == {"u1", "u2", "u3", "u4", "u5", "u6"}
SessionNotebooks == {"n1", "n2"}
NoActive == [url |-> "", notebookId |-> ""]

IdleSession ==
    [activeNotebooks |-> <<>>, recency |-> <<>>, lastSet |-> NoActive,
     got |-> NoActive, asked |-> FALSE]

\* activeNotebooks.filter(n => n.url !== url)
WithoutUrl(list, url) == SelectSeq(list, LAMBDA n : n.url # url)

\* A list that is never cut.
KeepAll(list) == list

\* if (activeNotebooks.length > 5) activeNotebooks.pop()
KeepLast(list) ==
    IF Len(list) > KEEP_LAST THEN SubSeq(list, 1, Len(list) - 1) ELSE list

\* setActiveNotebook(url, notebookId)
SetActiveNotebook(url, notebookId) ==
    /\ session' =
          [session EXCEPT
              !.activeNotebooks =
                  KeepLast(<<[url |-> url, notebookId |-> notebookId]>>
                               \o WithoutUrl(@, url)),
              !.recency = <<url>> \o SelectSeq(@, LAMBDA u : u # url),
              !.lastSet = [url |-> url, notebookId |-> notebookId],
              !.got = NoActive,
              !.asked = FALSE]
    /\ UNCHANGED notSession

\* getActiveNotebook(): the first entry, or null.
GetActiveNotebook ==
    /\ ~session.asked
    /\ session' =
          [session EXCEPT
              !.got = IF Len(session.activeNotebooks) > 0
                      THEN session.activeNotebooks[1] ELSE NoActive,
              !.asked = TRUE]
    /\ UNCHANGED notSession

NextSession ==
    \/ \E url \in SessionUrls, notebookId \in SessionNotebooks :
          SetActiveNotebook(url, notebookId)
    \/ GetActiveNotebook

-----------------------------------------------------------------------------
(***************************************************************************)
(* notebook_controller.js, callProxy, and token_extractor.js, executeRPC.  *)
(* The controller posts EXTENSION_CMD_EXECUTE on the window and waits for  *)
(* an EXTENSION_RPC_RESULT message; the injected script runs the RPC and   *)
(* posts the result.  Every message listener of the window sees every      *)
(* message.                                                                *)
(***************************************************************************)
MaxProxyCalls == 2

ProxyCalls == 1..MaxProxyCalls

\* The RPC ids two callProxy calls can share or differ in.
ProxyRpcIds == {RPC_LIST_ARTIFACTS, RPC_ADD_SOURCE}

RpcStatuses == {"SUCCESS", "ERROR"}

\* A call that was never made.  listener: the call's message listener is
\* registered; request: where the posted command is ("executing": executeRPC
\* awaits fetch; "posted": its EXTENSION_RPC_RESULT is on the window's
\* queue); status: what that result says; settled and by: how the promise
\* settled and which call's request produced the message that settled it.
NoProxyCall ==
    [rpcId |-> "", listener |-> FALSE, request |-> "none", status |-> "",
     settled |-> "pending", by |-> 0]

IdleProxy == [isProxyReady |-> FALSE, call |-> [c \in ProxyCalls |-> NoProxyCall]]

\* The window message EXTENSION_PROXY_READY.
ProxyReady ==
    /\ ~proxy.isProxyReady
    /\ proxy' = [proxy EXCEPT !.isProxyReady = TRUE]
    /\ UNCHANGED notProxy

\* callProxy(rpcId, payload): rejected at once while the proxy is not ready;
\* else the listener is added and the command posted, which starts executeRPC.
CallProxy(c, rpcId) ==
    /\ proxy.call[c].request = "none"
    /\ ~proxy.call[c].listener
    /\ proxy' =
           IF ~proxy.isProxyReady
           THEN [proxy EXCEPT !.call[c] =
                    [NoProxyCall EXCEPT !.rpcId = rpcId, !.settled = "rejected"]]
           ELSE [proxy EXCEPT !.call[c] =
                    [NoProxyCall EXCEPT !.rpcId = rpcId, !.listener = TRUE,
                                        !.request = "executing"]]
    /\ UNCHANGED notProxy

\* executeRPC of call c's command ends: it posts EXTENSION_RPC_RESULT with
\* the status, the text or the error, and the rpcId; the reqId is not in it.
ExecuteRPCReturned(c, status) ==
    /\ proxy.call[c].request = "executing"
    /\ proxy' = [proxy EXCEPT !.call[c].request = "posted",
                              !.call[c].status = status]
    /\ UNCHANGED notProxy

\* The test the listener of call d makes on the result of call c's request:
\* the message type and the RPC id.
ListenerMatches(d, c) == proxy.call[d].rpcId = proxy.call[c].rpcId

\* The window dispatches the result of call c's request to every listener:
\* each one that matches removes itself and settles its promise.
ResultDispatched(c) ==
    /\ proxy.call[c].request = "posted"
    /\ proxy' = [proxy EXCEPT !.call =
           [d \in ProxyCalls |->
               LET mine == IF d = c
                           THEN [proxy.call[d] EXCEPT !.request = "none"]
                           ELSE proxy.call[d]
               IN  IF proxy.call[d].listener /\ ListenerMatches(d, c)
                   THEN [mine EXCEPT
                            !.listener = FALSE,
                            !.settled = IF proxy.call[c].status = "SUCCESS"
                                        THEN "resolved" ELSE "rejected",
                            !.by = c]
                   ELSE mine]]
    /\ UNCHANGED notProxy

NextProxy ==
    \/ ProxyReady
    \/ \E c \in ProxyCalls, rpcId \in ProxyRpcIds : CallProxy(c, rpcId)
    \/ \E c \in ProxyCalls, status \in RpcStatuses : ExecuteRPCReturned(c, status)
    \/ \E c \in ProxyCalls : ResultDispatched(c)

-----------------------------------------------------------------------------
(***************************************************************************)
(* The specifications.                                                     *)
(***************************************************************************)
Init ==
    /\ InitJobs /\ InitOrch /\ InitPoll /\ InitTok
    /\ parser = IdleParser
    /\ fetch = IdleFetch
    /\ session = IdleSession
    /\ proxy = IdleProxy

\* The parsers are pure functions: every response is an initial state.
InitParser ==
    /\ InitJobs /\ InitOrch /\ InitPoll
    /\ tok = IdleTok
    /\ parser \in StreamedResponses \cup RpcResponses \cup BracketScans
    /\ fetch = IdleFetch
    /\ session = IdleSession
    /\ proxy = IdleProxy

\* One fetchWithCookies call, or the session list, on a server that does
\* nothing else.
InitAlone ==
    /\ InitJobs /\ InitOrch /\ InitPoll
    /\ tok = IdleTok
    /\ parser = IdleParser
    /\ fetch = IdleFetch
    /\ session = IdleSession
    /\ proxy = IdleProxy

\* The server in either mode, its clients untouched by anything else.
InitEitherMode ==
    /\ InitJobsIn(HeadlessEnvs) /\ InitOrch /\ InitPoll
    /\ tok = IdleTok
    /\ parser = IdleParser
    /\ fetch = IdleFetch
    /\ session = IdleSession
    /\ proxy = IdleProxy

SpecJobs == InitEitherMode /\ [][NextJobs]_vars

\* The worker of a job runs on whenever the await it is at has returned or
\* thrown: every RPC, download, image conversion and sleep does so.  The
\* user's login in a browser window, the tool calls, the cookie syncs and
\* the clock are not bound to happen.
WorkerRuns(j) ==
    /\ WF_vars(GetClientStopped(j))
    /\ WF_vars(GetClientStarted(j))
    /\ WF_vars(EnsureReturned(j))
    /\ WF_vars(GenerateReturned(j))
    /\ WF_vars(DownloadReturned(j))
    /\ WF_vars(SharpReturned(j))
    /\ WF_vars(ReauthWake(j))

SpecJobsLive == SpecJobs /\ \A j \in JobIds : WorkerRuns(j)

\* Two jobs of one user at a time, on a headless server whose clock stands
\* still, with two cookie sets to sync.
PairIds == {1, 2}
PairToken == "u1"
PairCookieSets == {"c1", "c2"}

InitPair ==
    /\ InitServer({"undefined"}, PairIds) /\ InitOrch /\ InitPoll
    /\ tok = IdleTok
    /\ parser = IdleParser
    /\ fetch = IdleFetch
    /\ session = IdleSession
    /\ proxy = IdleProxy

NextPair ==
    \/ \E u \in VideoUrls : GenerateInfographicTool(u, PairToken)
    \/ \E j \in PairIds : GetClientStopped(j)
    \/ \E j \in PairIds : GetClientStarted(j)
    \/ \E j \in PairIds : EnsureReturned(j)
    \/ \E j \in PairIds : GenerateReturned(j)
    \/ \E j \in PairIds : DownloadReturned(j)
    \/ \E j \in PairIds : SharpReturned(j)
    \/ \E j \in PairIds : ReauthWake(j)
    \/ \E c \in PairCookieSets : SyncCookies(c, PairToken)

SpecPair == InitPair /\ [][NextPair]_vars

\* Two jobs of one user for one video while time passes, on a server that
\* has no cookies from the extension.
TableVideo == "v1"

NextTable ==
    \/ GenerateInfographicTool(TableVideo, PairToken)
    \/ \E j \in PairIds : GetClientStarted(j)
    \/ \E j \in PairIds : EnsureReturned(j)
    \/ \E j \in PairIds : GenerateReturned(j)
    \/ \E j \in PairIds : DownloadReturned(j)
    \/ \E j \in PairIds : SharpReturned(j)
    \/ \E j \in PairIds : ReauthWake(j)
    \/ \E j \in PairIds : CheckInfographicStatus(j)
    \/ \E d \in TickSteps : Tick(d)

SpecTable == InitPair /\ [][NextTable]_vars

Next == NextOrch

Spec == Init /\ [][Next]_vars

SpecPoll == Init /\ [][NextPoll]_vars /\ WF_vars(NextPoll)

SpecTok == Init /\ [][NextTok]_vars

SpecParser == InitParser /\ [][NextParser]_vars

SpecFetch == InitAlone /\ [][NextFetch]_vars

SpecSession == InitAlone /\ [][NextSession]_vars

SpecProxy == InitAlone /\ [][NextProxy]_vars

-----------------------------------------------------------------------------
(* Properties of pollForArtifacts, checked under SpecPoll. *)

\* C8: a pollForArtifacts call issues at most 30 list-artifacts RPCs, and
\* when it is over without an image reference it has raised the timeout error
\* (the extension: has told the UI ERROR "Timeout") and has returned no
\* value; and the call does get over.
C8_PollBounded ==
    /\ [](poll.rpcs <= POLL_ATTEMPTS)
    /\ [](PollOver /\ poll.value = "" =>
             /\ poll.rpcs = POLL_ATTEMPTS
             /\ poll.error = IF poll.variant = "extension"
                             THEN ExtensionTimeout ELSE PollTimeout)
    /\ <>PollOver

\* A client's loop has sent its 30 requests, none brought an image, and the
\* timeout error is raised.
C8_Witness ==
    /\ poll.variant = "native"
    /\ poll.pc = "done"
    /\ poll.rpcs = POLL_ATTEMPTS
    /\ poll.error = PollTimeout

-----------------------------------------------------------------------------
(* Properties of _refreshTokens, checked under SpecTok. *)

\* C10 as stated: a refresh whose request for the root page ended on the
\* login domain is over with the authentication-required error and has left
\* the session tokens as they were.
C10_LoginEndsRefresh ==
    tok.endedOnLogin =>
        /\ tok.pc = "done"
        /\ tok.error = AuthRequired
        /\ tok.sessionTokens = tok.before

\* C10, for the native client and the headless Playwright client: a refresh
\* whose request for the root page ended on the login domain is over with the
\* authentication-required error and has left the session tokens as they
\* were; and on no client is a token ever read from a login-domain page.
C10_LoginEndsHeadlessRefresh ==
    /\ tok.endedOnLogin /\ (tok.kind = "native" \/ tok.headless) =>
          /\ tok.pc = "done"
          /\ tok.error = AuthRequired
          /\ tok.sessionTokens = tok.before
    /\ \A f \in {"at", "bl", "fsid"} :
          tok.sessionTokens[f] # "accounts.google.com"

\* A refresh of a client that held tokens ended on the login domain and
\* failed.
C10_Witness ==
    /\ tok.endedOnLogin
    /\ tok.pc = "done"
    /\ tok.error = AuthRequired
    /\ tok.before = EarlierTokens
    /\ tok.sessionTokens = EarlierTokens

\* C11: a refresh that has scanned a page of the site is over with the
\* tokens-not-found error exactly when the page was scanned a second time,
\* after the retry delay, and "SNlM0e" or the build label was still missing;
\* and when it is over without an error, both are stored, and the session id
\* is stored as null exactly when "FdrFJe" was not on the page.
C11_TokensNotFoundAfterRetry ==
    tok.pc = "done" /\ tok.scans > 0 =>
        /\ tok.error = NoSessionTokens <=>
               tok.scans = 2 /\ ~(tok.last.at /\ tok.last.bl)
        /\ tok.error = "" =>
               /\ tok.sessionTokens.at = tok.url
               /\ tok.sessionTokens.bl = tok.url
               /\ (tok.sessionTokens.fsid = "") <=> ~tok.last.fsid

\* C22: the session tokens of a client change only in the step in which a
\* running _refreshTokens ends without an error; a refresh that has ended
\* with an error has left the tokens as they were when it began.
C22_TokensChangeOnlyOnSuccess ==
    /\ [](tok.pc = "done" /\ tok.error # "" => tok.sessionTokens = tok.before)
    /\ [][tok'.sessionTokens # tok.sessionTokens =>
              /\ tok.pc \notin {"idle", "done"}
              /\ tok'.pc = "done"
              /\ tok'.error = ""]_vars

\* A refresh of a client that held tokens of an earlier refresh has ended
\* without an error and has replaced them.
C22_Witness ==
    /\ tok.pc = "done" /\ tok.error = ""
    /\ tok.before = EarlierTokens
    /\ tok.sessionTokens # tok.before

-----------------------------------------------------------------------------
(* Properties of the response parsers, checked under SpecParser. *)

\* A streamed response has been parsed.
StreamParsedAny == parser.pc = "returned" /\ parser.fn = "_parseStreamedResponse"

\* A streamed response of one payload per chunk has been parsed.
StreamParsed == StreamParsedAny /\ ~parser.joint

\* The text extracted from the chunk that carries payload p.
ChunkText(p) == Trim(ExtractWrbText(Frame(p)))

\* The lines of the parser's output.
OutputLines == {Split(parser.summary)[k] : k \in 1..Len(Split(parser.summary))}

\* A transcript span as the specification words it: an array whose first two
\* elements are numbers, or of the form [null, number, number, ...].
TimestampSpan(v) ==
    /\ v.t = "array"
    /\ \/ Len(v.items) >= 2 /\ v.items[1].t = "number" /\ v.items[2].t = "number"
       \/ /\ Len(v.items) >= 3
          /\ v.items[1].t = "null"
          /\ v.items[2].t = "number"
          /\ v.items[3].t = "number"

RECURSIVE LeavesOutsideSpans(_)
\* The leaf strings of a value that are not beneath a transcript span.
LeavesOutsideSpans(v) ==
    IF v.t = "string" THEN {v.chars}
    ELSE IF TimestampSpan(v) THEN {}
    ELSE UNION {LeavesOutsideSpans(v.items[i]) : i \in 1..Len(v.items)}

RECURSIVE LeavesOf(_)
\* All leaf strings of a value.
LeavesOf(v) ==
    IF v.t = "string" THEN {v.chars}
    ELSE UNION {LeavesOf(v.items[i]) : i \in 1..Len(v.items)}

RECURSIVE StringsInOrder(_)
RECURSIVE StringsInOrderFrom(_, _)
\* The strings of a value in document order, each trimmed.
StringsInOrder(v) ==
    IF v.t = "string" THEN <<Trim(v.chars)>>
    ELSE StringsInOrderFrom(v.items, 1)

StringsInOrderFrom(items, i) ==
    IF i > Len(items) THEN <<>>
    ELSE StringsInOrder(items[i]) \o StringsInOrderFrom(items, i + 1)

RECURSIVE HasNumber(_)
HasNumber(v) ==
    \/ v.t = "number"
    \/ \E i \in 1..Len(v.items) : HasNumber(v.items[i])

\* A value that holds only prose strings: no numbers, and no string that is
\* blank or 36 characters long.
ProseOnly(v) ==
    /\ ~HasNumber(v)
    /\ LeavesOf(v) # {}
    /\ \A s \in LeavesOf(v) : Trim(s) # <<>> /\ Len(Trim(s)) # 36 /\ Len(s) # 36

RECURSIVE Pruned(_, _)
\* A value with every string beneath a transcript span replaced by null.
Pruned(v, inSpan) ==
    IF v.t = "array"
    THEN SArray([i \in 1..Len(v.items) |->
                    Pruned(v.items[i], inSpan \/ TimestampSpan(v))])
    ELSE IF v.t = "string" /\ inSpan THEN SNull
    ELSE v

\* The chunk whose text the parser returns: the last one that text is
\* extracted from, 0 when there is none.
ReturnedChunk ==
    Greatest({i \in 1..Len(parser.payloads) : ChunkText(parser.payloads[i]) # <<>>}
                 \cup {0})

\* C14 as stated: of two chunks with different extracted text the parser
\* returns the text of the second, whatever the texts are.
C14_SecondChunkWins ==
    StreamParsed /\ Len(parser.payloads) = 2 =>
        (ChunkText(parser.payloads[1]) # ChunkText(parser.payloads[2]) =>
            parser.summary = ChunkText(parser.payloads[2]))

\* C14: of two chunks the parser returns the text extracted from the second
\* one only, with nothing from the first, whenever text is extracted from
\* the second; when none is, it returns the text of the first.
C14_LastTextWins ==
    StreamParsed /\ Len(parser.payloads) = 2 =>
        parser.summary = IF ChunkText(parser.payloads[2]) # <<>>
                         THEN ChunkText(parser.payloads[2])
                         ELSE ChunkText(parser.payloads[1])

\* Two chunks with different texts were parsed and the second one's text is
\* what came back.
C14_Witness ==
    /\ StreamParsed
    /\ Len(parser.payloads) = 2
    /\ ChunkText(parser.payloads[1]) = <<"p">> \o <<Newline>> \o Chars("c", 37)
    /\ ChunkText(parser.payloads[2]) = <<"p", Newline, "q">>
    /\ parser.summary = <<"p", Newline, "q">>

C16_TranscriptSpansContributeNothing ==
    StreamParsed =>
        /\ parser.summary =
              ParseStreamedResponse(
                  StreamedText([i \in 1..Len(parser.payloads) |->
                                   Pruned(parser.payloads[i], FALSE)]))
        /\ \A i \in 1..Len(parser.payloads) :
              \A s \in LeavesOf(parser.payloads[i])
                          \ LeavesOutsideSpans(parser.payloads[i]) :
                 (\A j \in 1..Len(parser.payloads) :
                     s \notin LeavesOutsideSpans(parser.payloads[j]))
                     => Trim(s) \notin OutputLines

\* [4000, 5000, ["some text"]] between two prose strings was parsed: the
\* prose came back, "some text" did not.
C16_Witness ==
    /\ StreamParsed
    /\ Len(parser.payloads) = 1
    /\ parser.payloads[1] =
          SArray(<<SArray(<<SString(<<"p">>), SpanA, SString(<<"q">>)>>),
                   SNull, SNull>>)
    /\ parser.summary = <<"p", Newline, "q">>
    /\ SomeText \notin OutputLines

\* C17 as stated: for one chunk whose decoded payload holds only prose
\* strings the parser returns all strings of the payload, in document order,
\* joined.
C17_SingleChunkAllStrings ==
    StreamParsed /\ Len(parser.payloads) = 1 /\ ProseOnly(parser.payloads[1]) =>
        parser.summary = Join(StringsInOrder(parser.payloads[1]), 1)

\* C17, for the part of a payload that is walked: for one chunk whose decoded
\* payload has more than two elements, the first of which holds only prose
\* strings, the parser returns the strings of that first element, each
\* trimmed and once, in document order, joined by newlines; for a payload of
\* at most two elements it returns the empty string.
C17_SingleChunkAnswerStrings ==
    StreamParsed /\ Len(parser.payloads) = 1 =>
        LET decoded == parser.payloads[1]
        IN  IF Len(decoded.items) > 2
            THEN ProseOnly(decoded.items[1]) =>
                    parser.summary = Join(StringsInOrder(decoded.items[1]), 1)
            ELSE parser.summary = <<>>

\* One chunk with two prose strings in its answer, one nested and padded, was
\* parsed and both came back in order.
C17_Witness ==
    /\ StreamParsed
    /\ Len(parser.payloads) = 1
    /\ parser.payloads[1].items[1] =
          SArray(<<SString(<<"p">>), SArray(<<SString(Chars("e", 35) \o <<" ">>)>>)>>)
    /\ parser.summary = <<"p", Newline>> \o Chars("e", 35)

\* The text of each payload of the response, and those that are not empty.
ChunkTexts == [i \in 1..Len(parser.payloads) |-> ChunkText(parser.payloads[i])]
TextsFound == SelectSeq(ChunkTexts, LAMBDA t : t # <<>>)

\* C24 as stated: every payload here decodes, so the result is the text of
\* the last payload of the response and of no other.
C24_LastDecodedPayloadOnly ==
    StreamParsedAny =>
        parser.summary = ChunkTexts[Len(parser.payloads)]

\* C24: the text extracted from a top-level value replaces what was there
\* whenever it is not empty, so the result is the text of the last
\* top-level value that text was extracted from (empty when there is
\* none); a value that holds several wrb.fr payloads gives the texts of all
\* of them, in order, joined by newlines.
C24_LastValueWithTextWins ==
    StreamParsedAny =>
        parser.summary =
            IF parser.joint THEN Join(TextsFound, 1)
            ELSE IF ReturnedChunk = 0 THEN <<>>
            ELSE ChunkTexts[ReturnedChunk]

\* Two chunks were parsed, "some text" was extracted from the first, and
\* the text of the second is all that came back.
C24_Witness ==
    /\ StreamParsed
    /\ Len(parser.payloads) = 2
    /\ ChunkTexts[1] = SomeText
    /\ ChunkTexts[2] = <<"p", Newline, "q">>
    /\ parser.summary = ChunkTexts[2]

\* C25: started at the opening bracket of a well-formed JSON array, the
\* bracket scanner returns the position of the bracket that closes that
\* array, whatever brackets, braces, quotes and backslashes the strings of
\* the array hold and whatever follows the array.
C25_ScannerFindsClosingBracket ==
    parser.pc = "returned" /\ parser.fn = "_findBalancedEnd" =>
        /\ parser.text[parser.start] = "["
        /\ parser.endBracket = parser.closing

\* The scanner was run inside a larger array on an array whose strings hold
\* an escaped backslash, an escaped quote and a closing bracket, and
\* returned the position of the array's own closing bracket.
C25_Witness ==
    /\ parser.pc = "returned" /\ parser.fn = "_findBalancedEnd"
    /\ parser.start > 1
    /\ parser.text[parser.start] = "["
    /\ SubSeq(parser.text, parser.start, parser.closing) =
          Stringify(SArray(<<SString(<<Backslash, Backslash, Quote, "]">>),
                             SArray(<<SString(<<"[", Quote, "]", "]">>)>>),
                             SNull>>))
    /\ parser.endBracket = parser.closing
    /\ parser.closing < Len(parser.text)

\* C18: _parseRpcResponse returns the value of the first line, in order,
\* that (trimmed) begins with "[[", parses as JSON and has "wrb.fr" at
\* [0][0]; it returns null exactly when no line is such a frame; a line that
\* is not JSON or is cut short is passed over and nothing is raised.
C18_FirstFrameLine ==
    parser.pc = "returned" /\ parser.fn = "_parseRpcResponse" =>
        LET frames == {i \in 1..Len(parser.lines) : parser.lines[i].kind = "frame"}
        IN  /\ parser.frame # SyntaxError
            /\ parser.frame = IF frames = {} THEN SNull
                              ELSE parser.lines[Least(frames)].value
            /\ parser.frame = SNull <=> frames = {}

\* A response whose first two lines begin with "[[" without being frames,
\* one of them cut short, and whose third line is a frame: the third came
\* back.
C18_Witness ==
    /\ parser.pc = "returned"
    /\ parser.fn = "_parseRpcResponse"
    /\ Len(parser.lines) = 3
    /\ parser.lines[1].text = SubSeq(Stringify(FrameA), 1, 12)
    /\ parser.lines[2].value = SNull /\ parser.lines[2].kind = "noframe"
    /\ parser.lines[3].kind = "frame"
    /\ parser.frame = parser.lines[3].value

-----------------------------------------------------------------------------
(* Properties of fetchWithCookies, checked under SpecFetch. *)

\* The host is the cookie's domain or, for a dot-prefixed domain, that
\* domain or one of its subdomains.
InDomain(cookie, host) ==
    IF StartsWith(cookie.domain, <<".">>)
    THEN \/ host = SubSeq(cookie.domain, 2, Len(cookie.domain))
         \/ EndsWith(host, cookie.domain)
    ELSE host = cookie.domain

\* The request path is the cookie's path or lies beneath it.
UnderPath(cookie, pathname) ==
    \/ pathname = cookie.path
    \/ /\ StartsWith(pathname, cookie.path)
       /\ \/ cookie.path[Len(cookie.path)] = "/"
          \/ pathname[Len(cookie.path) + 1] = "/"

\* C27: the Cookie header of every request, the first and each redirect
\* hop, names a cookie only if the request's host is within the cookie's
\* domain and the request's path lies under the cookie's path.
C27_CookiesStayInScope ==
    fetch.pc = "fetch" =>
        \A cookie \in fetch.header :
            /\ InDomain(cookie, fetch.currentUrl.host)
            /\ UnderPath(cookie, fetch.currentUrl.pathname)

\* C39: a fetchWithCookies call sends at most 6 requests, the first and
\* one per redirect followed, of which there are at most 5; the response it
\* returns is not a redirect, or is the one that came after the fifth
\* redirect followed, or has no Location header.
C39_AtMostSixRequests ==
    /\ fetch.requests <= maxRedirects + 1
    /\ fetch.pc # "idle" => fetch.requests = fetch.redirectCount + 1
    /\ fetch.pc = "done" /\ fetch.status >= 300 /\ fetch.status < 400 =>
           \/ fetch.redirectCount = maxRedirects
           \/ fetch.location = NoFetchUrl

\* Five redirects were followed and the sixth response, a redirect with a
\* Location header, was returned.
C39_Witness ==
    /\ fetch.pc = "done" /\ fetch.requests = 6 /\ fetch.status = 302
    /\ fetch.location # NoFetchUrl

-----------------------------------------------------------------------------
(* Properties of the activeNotebooks list, checked under SpecSession. *)

\* The place of a URL in the order of the latest calls, 1 for the latest.
Recency(url) ==
    Least({i \in 1..Len(session.recency) : session.recency[i] = url})

\* C29: the active-notebook list holds at most 5 entries, no two of them
\* with the same URL, each entry's URL set later than those of the entries
\* behind it, and getActiveNotebook answers with the URL and the notebookId
\* of the latest setActiveNotebook call.
C29_ActiveNotebooksList ==
    LET list == session.activeNotebooks
    IN  /\ Len(list) <= 5
        /\ \A i, j \in 1..Len(list) : i # j => list[i].url # list[j].url
        /\ \A i, j \in 1..Len(list) :
              i < j => Recency(list[i].url) < Recency(list[j].url)
        /\ session.asked => session.got = session.lastSet

\* Six URLs were set, one of them again with another notebook after the
\* list was full, and getActiveNotebook answered with that call's entry.
C29_Witness ==
    /\ Len(session.recency) = 6
    /\ Len(session.activeNotebooks) = 5
    /\ session.asked
    /\ session.got = [url |-> "u1", notebookId |-> "n2"]
    /\ \E i \in 2..5 : session.activeNotebooks[i].notebookId = "n2"

-----------------------------------------------------------------------------
(* Properties of the job worker, checked under SpecJobsLive. *)

\* The job is in flight.
InFlight(j) == job[j].status \in {"pending", "processing"}

\* The job has ended.
Ended(j) == job[j].status \in {"completed", "failed"}

\* The worker is at page.waitForURL(site, { timeout: 0 }).
AtLoginWait(j) == job[j].pc = "gc_login"

\* C30, as stated: every job that was created eventually has the status
\* completed or failed.
C30_EveryJobEnds ==
    \A j \in JobIds : InFlight(j) ~> Ended(j)

\* C30, with the wait for the user's login set apart: every job that was
\* created eventually has the status completed or failed, or its worker
\* comes to wait for the login; and a worker waits there only in a
\* Playwright client of a server that was started not headless, so that
\* every job of a server in the default or headless mode ends.
C30_JobEndsOrWaitsForLogin ==
    /\ \A j \in JobIds : InFlight(j) ~> (Ended(j) \/ AtLoginWait(j))
    /\ [](\A j \in JobIds :
             AtLoginWait(j) => ~Headless /\ job[j].cl.kind = "playwright")

\* On a headless server a job met the authentication error, the cookies
\* were synced again within the wait, the retry failed, and the job ended
\* as failed.
C30_Witness ==
    /\ Headless
    /\ \E j \in JobIds :
          /\ job[j].status = "failed" /\ job[j].error = RetryFailed
          /\ job[j].pc = "done"

-----------------------------------------------------------------------------
(* Properties of the extension's interval callbacks, checked under SpecPoll. *)

\* C37: in one run of the extension's pollForArtifacts the UI is told
\* COMPLETED at most once: no callback sends it after it was sent; and the
\* UI is never told both the Timeout ERROR and COMPLETED.
C37_OneTerminalOutcome ==
    /\ [][poll'.converting < poll.converting =>
              ExtensionCompleted \notin poll.notified]_vars
    /\ [](~({ExtensionTimeout, ExtensionCompleted} \subseteq poll.notified))

-----------------------------------------------------------------------------
(* Properties of the job table, checked under SpecJobs and SpecTable. *)

\* The jobs of the table that are in flight for the video and the user key
\* of job object jb, and less than 5 minutes old.
SameInFlight(jb) ==
    {id \in infographicJobs :
        /\ job[id].videoUrl = jb.videoUrl
        /\ UserKey(job[id].user) = UserKey(jb.user)
        /\ job[id].status \in {"pending", "processing"}
        /\ now - job[id].createdAt < DEDUP_MAX_AGE}

\* C35: a generate_infographic request that is answered from an existing
\* job is answered from a job of its own user key, and a request for which a
\* new job is created found no job in flight for its video and its user key
\* that was less than 5 minutes old.
C35_ReuseOnlySameVideoAndUser ==
    [][/\ observed'.via = "reused" =>
              UserKey(observed'.jobUser) = UserKey(observed'.asker)
       /\ observed'.via = "new" =>
              \A id \in DOMAIN job :
                  job'[id].serial # job[id].serial =>
                      SameInFlight(job'[id]) = {}]_vars

\* C36: a job that is pending or processing is in the job table: an id
\* leaves the table only when its job is completed or failed, so that
\* check_infographic_status finds every job in flight.
C36_InFlightJobStaysInTable ==
    \A id \in DOMAIN job :
        job[id].status \in {"pending", "processing"} => id \in infographicJobs

-----------------------------------------------------------------------------
(* Properties of the worker's retry, checked under SpecJobs and SpecPair. *)

\* The part of C32 that is about the number of attempts: a job's worker calls generateInfographic at most twice, the second
\* time only in the retry; the retry starts only from the re-auth wait, on
\* a wake that finds the flag no longer set; a wait that ends otherwise
\* ends the job as failed with the session-expired error; and a retry that
\* fails ends the job as failed with the retry-failed error, without
\* another wait.
AtMostOneRetry ==
    /\ [](\A j \in DOMAIN job :
             /\ job[j].attempts <= 2
             /\ job[j].attempts = 2 => job[j].retry)
    /\ [][\A j \in DOMAIN job :
             /\ job'[j].retry /\ ~job[j].retry =>
                    /\ job[j].pc = "reauthWait"
                    /\ needsReauth[UserKey(job[j].user)] # "true"
             /\ job[j].pc = "reauthWait" /\ job'[j].pc # "reauthWait" =>
                    \/ job'[j].retry
                    \/ /\ job'[j].status = "failed"
                       /\ job'[j].error = SessionExpired
             /\ job[j].retry /\ job'[j].serial = job[j].serial =>
                    /\ job'[j].pc # "reauthWait"
                    /\ job'[j].status = "failed" => job'[j].error = RetryFailed
          ]_vars

\* The worker of a job is in its second call of generateInfographic.
SecondAttempt ==
    \E j \in JobIds :
        job[j].pc = "generate" /\ job[j].attempts = 2 /\ job[j].retry

\* C32: a job's worker calls generateInfographic at most twice, the
\* original attempt and at most one retry; the retry is made only after a
\* re-auth that succeeded, cookies having been synced for the job's user key
\* since its authentication error; a wait that expires ends the job as
\* failed with the session-expired error, and a retry that fails ends it as
\* failed without a further retry.
C32_OneRetryAfterReauth ==
    /\ AtMostOneRetry
    /\ [](\A j \in DOMAIN job : job[j].attempts = 2 => job[j].synced)

-----------------------------------------------------------------------------
(* Properties of jobs that run side by side, checked under SpecPair. *)

\* C31: a job that has seen the re-auth flag cleared and retries has had a
\* /sync-cookies request for its user key processed since its
\* authentication error.
C31_RetryOnlyAfterSync ==
    \A j \in DOMAIN job : job[j].retry => job[j].synced

\* The worker of job j calls getClient in this step: at the start of a new
\* job, or at the retry after the re-auth wait.
CallsGetClient(j) ==
    \/ job'[j].serial # job[j].serial
    \/ job[j].pc = "reauthWait" /\ job'[j].retry

\* C33: when a worker calls getClient and cookies are stored for its user
\* key, the client it is to run on, an existing one or the one to be built,
\* holds the cookies stored last.
C33_ClientHoldsSyncedCookies ==
    [][\A j \in DOMAIN job :
          CallsGetClient(j) /\ userCookies[UserKey(job'[j].user)].cookies # "" =>
              job'[j].cl.cookies = userCookies[UserKey(job'[j].user)].cookies]_vars

\* The workers that are inside getClient for user key k, between the
\* decision to build a client and the return of its start().
StartingClient(k) ==
    {j \in DOMAIN job :
        job[j].pc \in {"gc_stop", "gc_start"} /\ UserKey(job[j].user) = k}

\* C34: for each user key at most one worker at a time is building and
\* starting a client in getClient, and a worker that has left getClient
\* holds a client.
C34_OneClientStartPerKey ==
    /\ \A k \in Keys : Cardinality(StartingClient(k)) <= 1
    /\ \A j \in DOMAIN job :
          job[j].pc \in {"ensure", "generate", "download", "sharp"} =>
              job[j].cl # NoClient

-----------------------------------------------------------------------------
(***************************************************************************)
(* Properties of callProxy, checked under SpecProxy.                       *)
(***************************************************************************)
\* C38: a callProxy promise that a result message settled was settled by the
\* result of the request it posted itself, also when another call with the
\* same RPC id was outstanding.
C38_SettledByOwnResult ==
    \A c \in ProxyCalls :
        proxy.call[c].by # 0 => proxy.call[c].by = c

=============================================================================
